---- MODULE Spec2Model ----
(***************************************************************************)
(* Mission Control Bot: the mission / submission / vote store              *)
(* (storage.ts), the deadline sweeper (deadline-checker.ts), the batch     *)
(* export's store effects (sheets.ts) and the intake and reaction handlers *)
(* (discord.ts, telegram.ts).                                              *)
(*                                                                         *)
(* Node runs every handler on one event loop: the code between two awaits  *)
(* is one atomic step, and an await is a point where any other handler or  *)
(* sweep cycle may run.  Each action below is one such step.               *)
(***************************************************************************)
EXTENDS Integers, Sequences, FiniteSets, TLC

\* ------------------------------------------------------------------ bounds
MaxTime == 1              \* clock readings 0..MaxTime
MaxMissions == 2          \* threads (and so missions) 1..MaxMissions
MaxJudges == 2            \* users 1..MaxJudges hold a judge role at startup, user 0 does not
MaxCycles == 2            \* sweep cycles that may be in flight at once
MaxTimers == 1            \* interval timers alive at once
MaxSubs == 1              \* submissions sent while the sweeper runs (Spec)
MaxVoters == 1            \* users 0..MaxVoters react while the sweeper runs (Spec)
MaxLedgerSubs == 2        \* submissions sent in SpecLedger
MaxStarts == 2            \* interval timers alive at once in SpecTimers
MaxTitleLength == 100     \* sanitizeTitle keeps the first 100 characters
MaxSyncMissions == 1      \* threads in SpecSync
MaxSyncSubs == 2          \* submissions sent in SpecSync
MaxCalls == 2             \* gateway calls suspended at once in SpecSync
MaxSweepCalls == 1        \* gateway calls suspended at once in SpecSweepSync
MaxOps == 4               \* store calls logged in SpecStore before a handler is held back
MaxRuns == 2              \* sweeps started after fewer than MaxRuns completed writes in SpecRerun
MaxAvgJudges == 3         \* judges who voted on the submission of SpecAverage
MaxScore == 5             \* the highest score of VOTE_EMOJIS
DefaultDeadlineTicks == 2 \* "7 days from now", in clock readings of the model

Threads == 1..MaxMissions
Judges == 1..MaxJudges
Users == 0..MaxJudges
Cycles == 1..MaxCycles
ParsedDeadlines == {0}        \* deadlines read from a <t:...> stamp or passed to updateMissionDeadline
EmojiChoices == {0, 2, 4}     \* reactions tried: 0 is a non-vote emoji; 2 and 4 are vote emojis
NoTime == 0 - 1               \* exportedAt absent
NoTelegram == 0 - 1           \* telegramMessageId absent
UnknownIds == {0 - 5}         \* an id no record carries

VARIABLES
    now,              \* Date.now()
    sheetsConfigured, \* isSheetsConfigured(): spreadsheet id and credentials present
    judgeRoles,       \* the users who hold one of config.discordJudgeRoleIds in the guild
    missions,         \* missions.json: { missions: Mission[] }
    submissions,      \* submissions.json: { submissions: Submission[] }
    threadOpen,       \* Discord side: thread neither locked nor archived
    pc,               \* per sweep cycle: where checkDeadlines is suspended
    queue,            \* per sweep cycle: missionsPastDeadline still to process (head = current)
    threadClosed,     \* per sweep cycle: the local threadClosed of the current iteration
    fetching,         \* per thread: MessageCreate handlers awaiting fetchStarterMessage
    liveTimers,       \* setInterval timers not yet cleared
    checkInterval,    \* the module variable checkInterval is non-null
    skipped,          \* which of "start", "sweep" returned at its "not configured" guard
    reRegistered,     \* registerMission was called for a thread that already had a mission
    sheets,           \* the remote spreadsheet: doc.sheetsByTitle, tab title -> header and rows
    calls,            \* appendSubmissionToSheet / updateSubmissionVotes calls suspended at an await
    loaded,           \* per sweep cycle: what exportMissionToSheets holds across its awaits
    result,           \* what the Sync Gateway call that returned last returned
    log               \* the operations completed so far, in the specifications that record them

vars == <<now, sheetsConfigured, judgeRoles, missions, submissions, threadOpen,
          pc, queue, threadClosed, fetching, liveTimers, checkInterval, skipped,
          reRegistered, sheets, calls, loaded, result, log>>

storeVars == <<missions, submissions>>
sweepVars == <<pc, queue, threadClosed>>
timerVars == <<liveTimers, checkInterval>>
ghostVars == <<skipped, reRegistered>>
remoteVars == <<sheets, calls, loaded, result>>
coreVars == <<now, sheetsConfigured, judgeRoles, missions, submissions, threadOpen,
              pc, queue, threadClosed, fetching, liveTimers, checkInterval, skipped,
              reRegistered>>

\* what the store-level specifications leave out: the spreadsheet side, whose
\* outcomes they take as inputs (ioOk), and the operation log
extVars == <<sheets, calls, loaded, result, log>>

\* ------------------------------------------------------------ sequence helpers
\* Array.prototype.findIndex: 1-based index of the first element satisfying P, 0 if none
FindIndex(s, P(_)) ==
    IF \E i \in 1..Len(s) : P(s[i])
    THEN CHOOSE i \in 1..Len(s) : P(s[i]) /\ \A k \in 1..(i-1) : ~P(s[k])
    ELSE 0

\* Array.prototype.filter
Filter(s, P(_)) == SelectSeq(s, P)

Range(s) == {s[i] : i \in 1..Len(s)}

\* =========================================================================
\* storage.ts : missions
\* =========================================================================
getMissionByThreadIdx(ms, t) ==
    LET P(m) == m.threadId = t IN FindIndex(ms, P)

getMissionByIdIdx(ms, id) ==
    LET P(m) == m.id = id IN FindIndex(ms, P)

getMissionByTelegramMessageIdx(ms, tg) ==
    LET P(m) == m.telegramMessageId = tg IN FindIndex(ms, P)

NewMission(t, deadline, clock) ==
    [id |-> clock, threadId |-> t, deadline |-> deadline, status |-> "active",
     exportedAt |-> NoTime, telegramMessageId |-> NoTelegram]

\* a registerMission that never looks for an existing record
registerMissionNoLookup(ms, t, deadline, clock) ==
    Append(ms, NewMission(t, deadline, clock))

registerMission(ms, t, deadline, clock) ==
    IF getMissionByThreadIdx(ms, t) # 0
    THEN ms
    ELSE Append(ms, NewMission(t, deadline, clock))

\* the Mission registerMission returns
registerMissionResult(ms, t, deadline, clock) ==
    IF getMissionByThreadIdx(ms, t) # 0
    THEN ms[getMissionByThreadIdx(ms, t)]
    ELSE NewMission(t, deadline, clock)

updateMissionTelegramInfo(ms, id, tg) ==
    LET i == getMissionByIdIdx(ms, id)
    IN  IF i # 0 THEN [ms EXCEPT ![i].telegramMessageId = tg] ELSE ms

markMissionClosed(ms, id) ==
    LET i == getMissionByIdIdx(ms, id)
    IN  IF i # 0 THEN [ms EXCEPT ![i].status = "closed"] ELSE ms

getActiveMissions(ms) ==
    LET P(m) == m.status = "active" IN Filter(ms, P)

\* a getMissionsPastDeadline that does not look at the status
getMissionsPastDeadlineAnyStatus(ms, clock) ==
    LET P(m) == m.deadline < clock IN Filter(ms, P)

getMissionsPastDeadline(ms, clock) ==
    LET P(m) == m.status = "active" /\ m.deadline < clock IN Filter(ms, P)

\* an updateMissionDeadline that does not look at the status
updateMissionDeadlineAnyStatus(ms, id, newDeadline) ==
    LET i == getMissionByIdIdx(ms, id)
    IN  IF i # 0
        THEN [ms EXCEPT ![i].deadline = newDeadline]
        ELSE ms

updateMissionDeadline(ms, id, newDeadline) ==
    LET i == getMissionByIdIdx(ms, id)
    IN  IF i # 0 /\ ms[i].status = "active"
        THEN [ms EXCEPT ![i].deadline = newDeadline]
        ELSE ms

\* the boolean updateMissionDeadline returns
updateMissionDeadlineResult(ms, id, newDeadline) ==
    LET i == getMissionByIdIdx(ms, id)
    IN  i # 0 /\ ms[i].status = "active"

markMissionExported(ms, id, clock) ==
    LET i == getMissionByIdIdx(ms, id)
    IN  IF i # 0
        THEN [ms EXCEPT ![i].status = "exported", ![i].exportedAt = clock]
        ELSE ms

\* =========================================================================
\* storage.ts : submissions and votes
\* =========================================================================
\* `sub-${Date.now()}-${random}`: the random suffix keeps ids of one clock
\* reading apart; the model numbers the submissions instead
NewSubmissionId(subs) == Len(subs) + 1

\* message ids are issued by the chat platforms, one per message
NewMessageId(subs) == 100 + Len(subs) + 1

createSubmission(subs, messageId, t, missionId, source) ==
    Append(subs, [id |-> NewSubmissionId(subs), messageId |-> messageId,
                  threadId |-> t, missionId |-> missionId, votes |-> <<>>,
                  exported |-> FALSE, source |-> source])

getSubmissionByMessageIdx(subs, messageId) ==
    LET P(s) == s.messageId = messageId IN FindIndex(subs, P)

getSubmissionsByMission(subs, missionId) ==
    LET P(s) == s.missionId = missionId IN Filter(subs, P)

getSubmissionByIdIdx(subs, id) ==
    LET P(s) == s.id = id IN FindIndex(subs, P)

\* a recordVote that always pushes
recordVoteAppend(subs, submissionId, judgeId, score, clock) ==
    LET i == getSubmissionByIdIdx(subs, submissionId)
    IN  IF i = 0 THEN subs
        ELSE [subs EXCEPT ![i].votes =
                Append(@, [judgeId |-> judgeId, score |-> score, timestamp |-> clock])]

recordVote(subs, submissionId, judgeId, score, clock) ==
    LET i == getSubmissionByIdIdx(subs, submissionId)
    IN  IF i = 0 THEN subs
        ELSE LET ByJudge(v) == v.judgeId = judgeId
                 existingVoteIndex == FindIndex(subs[i].votes, ByJudge)
                 vote == [judgeId |-> judgeId, score |-> score, timestamp |-> clock]
             IN  IF existingVoteIndex > 0
                 THEN [subs EXCEPT ![i].votes[existingVoteIndex] = vote]
                 ELSE [subs EXCEPT ![i].votes = Append(@, vote)]

removeVote(subs, submissionId, judgeId) ==
    LET i == getSubmissionByIdIdx(subs, submissionId)
    IN  IF i = 0 THEN subs
        ELSE LET Others(v) == v.judgeId # judgeId
             IN  [subs EXCEPT ![i].votes = Filter(@, Others)]

markSubmissionsExported(subs, missionId) ==
    [i \in 1..Len(subs) |->
        IF subs[i].missionId = missionId
        THEN [subs[i] EXCEPT !.exported = TRUE]
        ELSE subs[i]]

\* =========================================================================
\* sheets.ts / discord.ts : configuration and the vote mapping
\* =========================================================================
\* an isSheetsConfigured that takes the configuration for granted
isSheetsConfiguredAlways == TRUE

isSheetsConfigured == sheetsConfigured

\* reaction.emoji.name: 1..5 are the five keycap emojis, 0 is a symbol that is no
\* key of any object, and a custom emoji may carry any name of letters, digits
\* and underscores, such as `constructor`, a member every object inherits
InheritedNames == {6}
EmojiNames == 0..5 \cup InheritedNames

\* VOTE_EMOJIS[emoji], a property lookup on an object literal: the five keycap
\* emojis give 1..5, an inherited member's name gives that member (a function,
\* here -1: neither undefined nor a number), anything else is undefined (0)
VOTE_EMOJIS(e) ==
    IF e \in 1..5 THEN e ELSE IF e \in InheritedNames THEN 0 - 1 ELSE 0

\* user.bot
Bots == {MaxJudges + 1}
IsBot(u) == u \in Bots

\* config.discordJudgeRoleIds.some(roleId => member?.roles.cache.has(roleId))
hasJudgeRole(u) == u \in judgeRoles

\* =========================================================================
\* sheets.ts : the spreadsheet
\* =========================================================================
\* A cell is a text, a sequence of characters or tokens; a row is a sequence of
\* cells; a sheet is its header row and its data rows.  The columns User ID,
\* User Tag, URL, Content and Submitted At, which are copied from the
\* submission and never read back, are left out.

\* thread.name, which registerMission stores as mission.title: whatever text the
\* thread's author chose.  The names of threads 1 and 2 differ in one special
\* character only; every other thread's name differs from all others in its letters.
ThreadName(t) ==
    IF t = 2 THEN <<"m", ":", "x">> ELSE <<"m", "?">> \o [i \in 1..t |-> "x"]

SpecialChars == {"*", "?", ":", "/", "\\", "[", "]", "'"}

Min(a, b) == IF a < b THEN a ELSE b

\* String.prototype.trim
RECURSIVE TrimLeft(_)
TrimLeft(s) == IF s # <<>> /\ Head(s) = " " THEN TrimLeft(Tail(s)) ELSE s

RECURSIVE TrimRight(_)
TrimRight(s) ==
    IF s # <<>> /\ s[Len(s)] = " " THEN TrimRight(SubSeq(s, 1, Len(s) - 1)) ELSE s

sanitizeTitle(title) ==
    LET replaced == [i \in 1..Len(title) |->
                        IF title[i] \in SpecialChars THEN "-" ELSE title[i]]
        sliced == SubSeq(replaced, 1, Min(MaxTitleLength, Len(replaced)))
    IN  TrimRight(TrimLeft(sliced))

\* the tab of the mission of thread t
Tab(t) == sanitizeTitle(ThreadName(t))

DigitChars == <<"0", "1", "2", "3", "4", "5", "6", "7", "8", "9">>

\* the digit a character is, -1 for any other character
DigitValue(ch) ==
    IF \E d \in 1..10 : DigitChars[d] = ch
    THEN (CHOOSE d \in 1..10 : DigitChars[d] = ch) - 1
    ELSE 0 - 1

\* Number.prototype.toString of a natural number
RECURSIVE toString(_)
toString(n) ==
    IF n < 10 THEN <<DigitChars[n + 1]>>
    ELSE toString(n \div 10) \o <<DigitChars[(n % 10) + 1]>>

\* a toFixed2 that cuts the digits off instead of rounding
toFixed2Truncated(sum, count) ==
    LET h == (100 * sum) \div count
    IN  toString(h \div 100) \o <<".">> \o toString((h % 100) \div 10) \o toString(h % 10)

\* (sum / count).toFixed(2): the nearest hundredth, the larger one on a tie
toFixed2(sum, count) ==
    LET h == (200 * sum + count) \div (2 * count)
    IN  toString(h \div 100) \o <<".">> \o toString((h % 100) \div 10) \o toString(h % 10)

RECURSIVE SumScores(_)
SumScores(votes) ==
    IF votes = <<>> THEN 0 ELSE Head(votes).score + SumScores(Tail(votes))

\* avgScore, as updateSubmissionVotes and as the export compute it
avgScoreOfVotes(votes) ==
    IF Len(votes) > 0 THEN toFixed2(SumScores(votes), Len(votes)) ELSE <<"N/A">>

avgScoreOfScores(votes) ==
    LET voteScores == [i \in 1..Len(votes) |-> votes[i].score]
        RECURSIVE Reduce(_)
        Reduce(xs) == IF xs = <<>> THEN 0 ELSE Head(xs) + Reduce(Tail(xs))
    IN  IF Len(voteScores) > 0
        THEN toFixed2(Reduce(voteScores), Len(voteScores))
        ELSE <<"N/A">>

\* votes.map(v => ({ judgeId, score })), what the handlers pass to updateSubmissionVotes
VotePairs(votes) ==
    [i \in 1..Len(votes) |-> [judgeId |-> votes[i].judgeId, score |-> votes[i].score]]

\* JSON.stringify of such a list
RECURSIVE stringify(_)
stringify(pairs) ==
    IF pairs = <<>> THEN <<>>
    ELSE <<"{">> \o toString(Head(pairs).judgeId) \o <<":">>
           \o toString(Head(pairs).score) \o <<"}">> \o stringify(Tail(pairs))

VotesJson(pairs) == <<"[">> \o stringify(pairs) \o <<"]">>

\* `sub-...` as a cell
IdCell(id) == <<"sub-">> \o toString(id)

SHEET_HEADERS ==
    <<<<"Submission ID">>, <<"Source">>, <<"Vote Count">>, <<"Average Score">>,
      <<"Votes (JSON)">>>>

\* headerValues.indexOf(name): 0 if absent
IndexOf(header, name) ==
    LET P(h) == h = name IN FindIndex(header, P)

\* row.get(name)
Cell(header, row, name) ==
    IF IndexOf(header, name) \in 1..Len(row) THEN row[IndexOf(header, name)] ELSE <<>>

\* row.set(name, value): a name the header lacks sets no cell
SetCell(header, row, name, value) ==
    LET i == IndexOf(header, name)
    IN  IF i = 0 THEN row
        ELSE [k \in 1..(IF i > Len(row) THEN i ELSE Len(row)) |->
                IF k = i THEN value ELSE IF k <= Len(row) THEN row[k] ELSE <<>>]

NoSheet == [header |-> <<>>, rows |-> <<>>]

\* the row appendSubmissionToSheet adds
AppendedRow(submissionId, source) ==
    <<IdCell(submissionId), <<source>>, <<"0">>, <<"N/A">>, <<"[", "]">>>>

\* rows.find(r => r.get('Submission ID') === submissionId): its position, 0 if none
FindRow(sheet, submissionId) ==
    LET P(r) == Cell(sheet.header, r, <<"Submission ID">>) = IdCell(submissionId)
    IN  FindIndex(sheet.rows, P)

\* the row updateSubmissionVotes saves: the row as read, with its three vote cells set
UpdatedRow(header, row, pairs) ==
    LET r1 == SetCell(header, row, <<"Vote Count">>, toString(Len(pairs)))
        r2 == SetCell(header, r1, <<"Average Score">>, avgScoreOfVotes(pairs))
    IN  SetCell(header, r2, <<"Votes (JSON)">>, VotesJson(pairs))

\* row.save(): the cells go to the row's position; on a sheet that has become
\* shorter meanwhile the row lands after the rows it has
SaveRowAt(rows, position, row) ==
    [k \in 1..(IF position > Len(rows) THEN position ELSE Len(rows)) |->
        IF k = position THEN row ELSE IF k <= Len(rows) THEN rows[k] ELSE <<>>]

\* judgeIds of the export: the distinct judges of the submissions, ascending
JudgeIdsOf(subs) ==
    UNION {{subs[i].votes[k].judgeId : k \in 1..Len(subs[i].votes)} : i \in 1..Len(subs)}

\* a < b for two texts of digits as Array.prototype.sort compares strings: by
\* their first differing character, a proper prefix first
RECURSIVE StringLess(_, _)
StringLess(a, b) ==
    IF b = <<>> THEN FALSE
    ELSE IF a = <<>> THEN TRUE
    ELSE IF Head(a) = Head(b) THEN StringLess(Tail(a), Tail(b))
    ELSE DigitValue(Head(a)) < DigitValue(Head(b))

\* Array.from(judgeIds).sort(): the ids are strings
RECURSIVE SortedSeq(_)
SortedSeq(S) ==
    IF S = {} THEN <<>>
    ELSE LET least == CHOOSE x \in S :
                         \A y \in S : x = y \/ StringLess(toString(x), toString(y))
         IN  <<least>> \o SortedSeq(S \ {least})

\* id.slice(-6)
Last6(text) == SubSeq(text, IF Len(text) > 6 THEN Len(text) - 5 ELSE 1, Len(text))

\* the header row the export writes
ExportHeaders(judgeIdArray) ==
    <<<<"Submission ID">>, <<"Source">>, <<"Vote Count">>, <<"Average Score">>>>
      \o [i \in 1..Len(judgeIdArray) |-> <<"Judge_">> \o Last6(toString(judgeIdArray[i]))]

\* the row the export writes for submission s
ExportRow(s, judgeIdArray) ==
    <<IdCell(s.id), <<s.source>>, toString(Len(s.votes)), avgScoreOfScores(s.votes)>>
      \o [i \in 1..Len(judgeIdArray) |->
            LET P(v) == v.judgeId = judgeIdArray[i]
                k == FindIndex(s.votes, P)
            IN  IF k # 0 THEN toString(s.votes[k].score) ELSE <<>>]

ExportRows(subs) ==
    [i \in 1..Len(subs) |-> ExportRow(subs[i], SortedSeq(JudgeIdsOf(subs)))]

\* what a sweep cycle holds while it is not inside an export
NotLoaded == [stage |-> "none", subs |-> <<>>, exists |-> FALSE]

NoResult == [op |-> "none", ok |-> FALSE, rowCount |-> 0]

Returned(op, ok, rowCount) == [op |-> op, ok |-> ok, rowCount |-> rowCount]

\* =========================================================================
\* Init
\* =========================================================================
Init ==
    /\ now = 0
    /\ sheetsConfigured \in BOOLEAN
    /\ judgeRoles = Judges
    /\ missions = <<>>
    /\ submissions = <<>>
    /\ threadOpen = [t \in Threads |-> TRUE]
    /\ pc = [c \in Cycles |-> "idle"]
    /\ queue = [c \in Cycles |-> <<>>]
    /\ threadClosed = [c \in Cycles |-> FALSE]
    /\ fetching = [t \in Threads |-> 0]
    /\ liveTimers = 0
    /\ checkInterval = FALSE
    /\ skipped = {}
    /\ reRegistered = FALSE
    /\ sheets = <<>>
    /\ calls = {}
    /\ loaded = [c \in Cycles |-> NotLoaded]
    /\ result = NoResult
    /\ log = <<>>

\* the clock advances
Tick ==
    /\ now < MaxTime
    /\ now' = now + 1
    /\ UNCHANGED <<sheetsConfigured, judgeRoles, storeVars, threadOpen, sweepVars, fetching,
                   timerVars, ghostVars>>

\* =========================================================================
\* discord.ts : MessageCreate (a message with a URL in a mission thread)
\* =========================================================================
Sum(f) ==
    LET RECURSIVE S(_)
        S(D) == IF D = {} THEN 0
                ELSE LET x == CHOOSE y \in D : TRUE IN f[x] + S(D \ {x})
    IN  S(DOMAIN f)

\* submissions stored plus those the suspended handlers will still store
Pending == Len(submissions) + Sum(fetching)

RegisterDeadlines == ParsedDeadlines \cup {now + DefaultDeadlineTicks}

\* the handler up to createSubmission, for a thread whose mission is registered
\* and a message whose id is messageId
DiscordMessageWith(t, messageId, storeOk) ==
    /\ threadOpen[t]
    /\ getMissionByThreadIdx(missions, t) # 0
    /\ LET mission == missions[getMissionByThreadIdx(missions, t)]
       IN  submissions' =
             IF storeOk
             THEN createSubmission(submissions, messageId, t, mission.id, "discord")
             ELSE submissions
    /\ UNCHANGED <<now, sheetsConfigured, judgeRoles, missions, threadOpen, sweepVars, fetching,
                   timerVars, ghostVars>>

\* the handler run for a message the platform has just issued an id for
DiscordMessage(t, storeOk) == DiscordMessageWith(t, NewMessageId(submissions), storeOk)

\* the handler finds no mission and suspends in fetchThreadStarterMessage
DiscordMessageFetch(t) ==
    /\ threadOpen[t]
    /\ getMissionByThreadIdx(missions, t) = 0
    /\ fetching' = [fetching EXCEPT ![t] = @ + 1]
    /\ UNCHANGED <<now, sheetsConfigured, judgeRoles, storeVars, threadOpen, sweepVars,
                   timerVars, ghostVars>>

\* ... and resumes: deadline parsed or defaulted, registerMission, createSubmission
DiscordMessageRegister(t, deadline, storeOk) ==
    /\ fetching[t] > 0
    /\ fetching' = [fetching EXCEPT ![t] = @ - 1]
    /\ LET mission == registerMissionResult(missions, t, deadline, now)
       IN  /\ missions' = registerMission(missions, t, deadline, now)
           /\ submissions' =
                 IF storeOk
                 THEN createSubmission(submissions, NewMessageId(submissions), t,
                                       mission.id, "discord")
                 ELSE submissions
    /\ reRegistered' = (reRegistered \/ getMissionByThreadIdx(missions, t) # 0)
    /\ UNCHANGED <<now, sheetsConfigured, judgeRoles, threadOpen, sweepVars, timerVars, skipped>>

\* =========================================================================
\* discord.ts : createMissionThread, telegram.ts : /mission
\* =========================================================================
\* the bot creates thread t, registers its mission and, when the announcement
\* was posted, links the announcement message to it
CreateMissionThread(t, announced) ==
    /\ getMissionByThreadIdx(missions, t) = 0
    /\ fetching[t] = 0
    /\ threadOpen[t]
    /\ LET ms1 == registerMission(missions, t, now + DefaultDeadlineTicks, now)
           i == getMissionByThreadIdx(ms1, t)
       IN  missions' = IF announced /\ i # 0
                       THEN updateMissionTelegramInfo(ms1, ms1[i].id, t)
                       ELSE ms1
    /\ UNCHANGED <<now, sheetsConfigured, judgeRoles, submissions, threadOpen, sweepVars, fetching,
                   timerVars, ghostVars>>

\* =========================================================================
\* telegram.ts : message:text (a reply with a URL to announcement tg)
\* =========================================================================
\* the handler up to createSubmission, for a reply whose message_id is messageId
TelegramReplyWith(tg, messageId) ==
    /\ LET i == getMissionByTelegramMessageIdx(missions, tg)
       IN  submissions' =
             IF i = 0 THEN submissions
             ELSE IF missions[i].status # "active" THEN submissions
             ELSE IF ~isSheetsConfigured THEN submissions
             ELSE createSubmission(submissions, messageId,
                                   missions[i].threadId, missions[i].id, "telegram")
    /\ UNCHANGED <<now, sheetsConfigured, judgeRoles, missions, threadOpen, sweepVars, fetching,
                   timerVars, ghostVars>>

TelegramReply(tg) == TelegramReplyWith(tg, NewMessageId(submissions))

\* =========================================================================
\* discord.ts : MessageReactionAdd / MessageReactionRemove
\* =========================================================================
\* a user can react on the Discord message of stored submission k while its
\* thread is open
Reactable(k) ==
    /\ k \in 1..Len(submissions)
    /\ submissions[k].source = "discord"
    /\ threadOpen[submissions[k].threadId]

ReactionAdd(k, u, e) ==
    /\ Reactable(k)
    /\ LET voteScore == VOTE_EMOJIS(e)
           i == getSubmissionByMessageIdx(submissions, submissions[k].messageId)
       IN  submissions' =
             IF IsBot(u) THEN submissions
             ELSE IF voteScore = 0 THEN submissions
             ELSE IF i = 0 THEN submissions
             ELSE IF ~hasJudgeRole(u) THEN submissions
             ELSE recordVote(submissions, submissions[i].id, u, voteScore, now)
    /\ UNCHANGED <<now, sheetsConfigured, judgeRoles, missions, threadOpen, sweepVars, fetching,
                   timerVars, ghostVars>>

ReactionRemove(k, u, e) ==
    /\ Reactable(k)
    /\ LET i == getSubmissionByMessageIdx(submissions, submissions[k].messageId)
       IN  submissions' =
             IF IsBot(u) THEN submissions
             ELSE IF VOTE_EMOJIS(e) = 0 THEN submissions
             ELSE IF i = 0 THEN submissions
             ELSE removeVote(submissions, submissions[i].id, u)
    /\ UNCHANGED <<now, sheetsConfigured, judgeRoles, missions, threadOpen, sweepVars, fetching,
                   timerVars, ghostVars>>

\* the guild's administrators give a member a judge role or take it away; the
\* handlers read the roles from the member at each event
GrantRole(u) ==
    /\ u \notin judgeRoles
    /\ judgeRoles' = judgeRoles \cup {u}
    /\ UNCHANGED <<now, sheetsConfigured, storeVars, threadOpen, sweepVars, fetching,
                   timerVars, ghostVars>>

RevokeRole(u) ==
    /\ u \in judgeRoles
    /\ judgeRoles' = judgeRoles \ {u}
    /\ UNCHANGED <<now, sheetsConfigured, storeVars, threadOpen, sweepVars, fetching,
                   timerVars, ghostVars>>

\* =========================================================================
\* storage.ts : updateMissionDeadline, called with any id and deadline
\* =========================================================================
UpdateDeadline(id, newDeadline) ==
    /\ missions' = updateMissionDeadline(missions, id, newDeadline)
    /\ UNCHANGED <<now, sheetsConfigured, judgeRoles, submissions, threadOpen, sweepVars, fetching,
                   timerVars, ghostVars>>

\* =========================================================================
\* deadline-checker.ts : checkDeadlines
\* =========================================================================
\* a snapshot of the fields of a Mission that checkDeadlines and the export use
Snapshot(m) == [id |-> m.id, threadId |-> m.threadId]

SnapshotAll(ms) == [i \in 1..Len(ms) |-> Snapshot(ms[i])]

\* the cycle slot a new checkDeadlines call runs in
FreeCycle == CHOOSE c \in Cycles : pc[c] = "idle" /\ \A d \in Cycles : pc[d] = "idle" => c <= d

HasFreeCycle == \E c \in Cycles : pc[c] = "idle"

\* checkDeadlines from its call to its first await (closeThread of the first mission)
checkDeadlinesStart ==
    IF ~isSheetsConfigured
    THEN /\ skipped' = skipped \cup {"sweep"}
         /\ UNCHANGED sweepVars
    ELSE LET q == getMissionsPastDeadline(missions, now)
         IN  /\ HasFreeCycle
             /\ skipped' = skipped
             /\ IF q = <<>>
                THEN UNCHANGED sweepVars
                ELSE /\ pc' = [pc EXCEPT ![FreeCycle] = "close"]
                     /\ queue' = [queue EXCEPT ![FreeCycle] = SnapshotAll(q)]
                     /\ threadClosed' = threadClosed

\* the for loop moves to the next mission, or checkDeadlines returns
Advance(c) ==
    /\ queue' = [queue EXCEPT ![c] = Tail(@)]
    /\ pc' = [pc EXCEPT ![c] = IF Tail(queue[c]) = <<>> THEN "idle" ELSE "close"]
    /\ threadClosed' = [threadClosed EXCEPT ![c] = FALSE]

\* an exception leaves the for loop: checkDeadlines rejects, the caller's catch logs it
Abort(c) ==
    /\ queue' = [queue EXCEPT ![c] = <<>>]
    /\ pc' = [pc EXCEPT ![c] = "idle"]
    /\ threadClosed' = [threadClosed EXCEPT ![c] = FALSE]

\* a loop that goes on to the next mission when closeThread fails
CloseThreadDoneSkipsExport(c, ok, locked, storeOk) ==
    /\ pc[c] = "close"
    /\ ok => locked
    /\ LET mission == Head(queue[c])
       IN  /\ threadOpen' = [threadOpen EXCEPT ![mission.threadId] = @ /\ ~locked]
           /\ IF ok
              THEN IF storeOk
                   THEN /\ missions' = markMissionClosed(missions, mission.id)
                        /\ pc' = [pc EXCEPT ![c] = "load"]
                        /\ threadClosed' = [threadClosed EXCEPT ![c] = TRUE]
                        /\ queue' = queue
                   ELSE /\ missions' = missions
                        /\ Abort(c)
              ELSE /\ missions' = missions
                   /\ Advance(c)
    /\ UNCHANGED <<now, sheetsConfigured, judgeRoles, submissions, fetching, timerVars, ghostVars>>

\* closeThread resolves: ok is its result, locked whether setLocked took effect,
\* storeOk whether markMissionClosed's load and save went through
CloseThreadDone(c, ok, locked, storeOk) ==
    /\ pc[c] = "close"
    /\ ok => locked
    /\ LET mission == Head(queue[c])
       IN  /\ threadOpen' = [threadOpen EXCEPT ![mission.threadId] = @ /\ ~locked]
           /\ IF ok
              THEN IF storeOk
                   THEN /\ missions' = markMissionClosed(missions, mission.id)
                        /\ pc' = [pc EXCEPT ![c] = "load"]
                        /\ threadClosed' = [threadClosed EXCEPT ![c] = TRUE]
                        /\ queue' = queue
                   ELSE /\ missions' = missions
                        /\ Abort(c)
              ELSE /\ missions' = missions
                   /\ pc' = [pc EXCEPT ![c] = "load"]
                   /\ threadClosed' = [threadClosed EXCEPT ![c] = FALSE]
                   /\ queue' = queue
    /\ UNCHANGED <<now, sheetsConfigured, judgeRoles, submissions, fetching, timerVars, ghostVars>>

\* =========================================================================
\* sheets.ts : exportMissionToSheets, as called by checkDeadlines
\* =========================================================================
\* getSpreadsheet resolves (ioOk) or throws; then getSubmissionsByMission, and
\* with no submission markMissionExported (storeOk: its load and save went through)
ExportLoad(c, ioOk, storeOk) ==
    /\ pc[c] = "load"
    /\ LET mission == Head(queue[c])
           subs == getSubmissionsByMission(submissions, mission.id)
       IN  IF ~ioOk
           THEN /\ missions' = missions
                /\ Advance(c)
           ELSE IF subs = <<>>
           THEN /\ missions' = IF storeOk
                                THEN markMissionExported(missions, mission.id, now)
                                ELSE missions
                /\ Advance(c)
           ELSE /\ missions' = missions
                /\ pc' = [pc EXCEPT ![c] = "write"]
                /\ UNCHANGED <<queue, threadClosed>>
    /\ UNCHANGED <<now, sheetsConfigured, judgeRoles, submissions, threadOpen, fetching,
                   timerVars, ghostVars>>

\* the sheet writes resolve (ioOk) or throw; then markMissionExported (missionOk)
\* and markSubmissionsExported (subsOk), any throw caught by the export's catch
ExportWrite(c, ioOk, missionOk, subsOk) ==
    /\ pc[c] = "write"
    /\ LET mission == Head(queue[c])
       IN  /\ missions' = IF ioOk /\ missionOk
                          THEN markMissionExported(missions, mission.id, now)
                          ELSE missions
           /\ submissions' = IF ioOk /\ missionOk /\ subsOk
                             THEN markSubmissionsExported(submissions, mission.id)
                             ELSE submissions
    /\ Advance(c)
    /\ UNCHANGED <<now, sheetsConfigured, judgeRoles, threadOpen, fetching, timerVars, ghostVars>>

\* =========================================================================
\* deadline-checker.ts : startDeadlineChecker, the interval, stop, triggerCheck
\* =========================================================================
\* startDeadlineChecker while fewer than maxTimers interval timers are alive
StartDeadlineCheckerWith(maxTimers) ==
    /\ IF ~isSheetsConfigured
       THEN /\ skipped' = skipped \cup {"start"}
            /\ UNCHANGED <<sweepVars, timerVars>>
       ELSE /\ liveTimers < maxTimers
            /\ checkDeadlinesStart
            /\ liveTimers' = liveTimers + 1
            /\ checkInterval' = TRUE
    /\ UNCHANGED <<now, sheetsConfigured, judgeRoles, storeVars, threadOpen, fetching, reRegistered>>

StartDeadlineChecker == StartDeadlineCheckerWith(MaxTimers)

TimerTick ==
    /\ liveTimers > 0
    /\ checkDeadlinesStart
    /\ UNCHANGED <<now, sheetsConfigured, judgeRoles, storeVars, threadOpen, fetching, timerVars,
                   reRegistered>>

TriggerCheck ==
    /\ checkDeadlinesStart
    /\ UNCHANGED <<now, sheetsConfigured, judgeRoles, storeVars, threadOpen, fetching, timerVars,
                   reRegistered>>

StopDeadlineChecker ==
    /\ IF checkInterval
       THEN /\ liveTimers' = liveTimers - 1
            /\ checkInterval' = FALSE
       ELSE UNCHANGED timerVars
    /\ UNCHANGED <<now, sheetsConfigured, judgeRoles, storeVars, threadOpen, sweepVars, fetching,
                   ghostVars>>

\* =========================================================================
\* sheets.ts : appendSubmissionToSheet
\* =========================================================================
\* a call moves on to its next await
Resume(call, next) == (calls \ {call}) \cup {[call EXCEPT !.pc = next]}

\* an appendSubmissionToSheet that does not look at the mission's status
appendSubmissionToSheetAnyStatus(mission, submissionId, source) ==
    /\ calls' = calls \cup {[op |-> "append", pc |-> "load", tab |-> Tab(mission.threadId),
                               sub |-> submissionId, source |-> source, pairs |-> <<>>,
                               position |-> 0, row |-> <<>>,
                               headers |-> <<>>, rowData |-> <<>>]}
    /\ result' = NoResult

\* the call, up to its first await: the status check, then ensureMissionSheet
appendSubmissionToSheet(mission, submissionId, source) ==
    IF mission.status # "active"
    THEN /\ calls' = calls
         /\ result' = Returned("append", FALSE, 0)
    ELSE /\ calls' = calls \cup {[op |-> "append", pc |-> "load", tab |-> Tab(mission.threadId),
                                    sub |-> submissionId, source |-> source, pairs |-> <<>>,
                                    position |-> 0, row |-> <<>>,
                               headers |-> <<>>, rowData |-> <<>>]}
         /\ result' = NoResult

\* getSpreadsheet resolves (ioOk) or throws; doc.sheetsByTitle tells whether the tab exists
AppendLoad(call, ioOk) ==
    /\ call \in calls /\ call.op = "append" /\ call.pc = "load"
    /\ ioOk => isSheetsConfigured
    /\ IF ioOk
       THEN /\ calls' = Resume(call, IF call.tab \in DOMAIN sheets
                                      THEN "loadHeader" ELSE "addSheet")
            /\ result' = NoResult
       ELSE /\ calls' = calls \ {call}
            /\ result' = Returned("append", FALSE, 0)
    /\ UNCHANGED <<coreVars, sheets, loaded>>

\* doc.addSheet: the spreadsheet refuses a title it already has
AppendAddSheet(call, ioOk) ==
    /\ call \in calls /\ call.op = "append" /\ call.pc = "addSheet"
    /\ IF ioOk /\ call.tab \notin DOMAIN sheets
       THEN /\ sheets' = sheets @@ (call.tab :> NoSheet)
            /\ calls' = Resume(call, "setHeader")
            /\ result' = NoResult
       ELSE /\ sheets' = sheets
            /\ calls' = calls \ {call}
            /\ result' = Returned("append", FALSE, 0)
    /\ UNCHANGED <<coreVars, loaded>>

\* sheet.setHeaderRow(SHEET_HEADERS)
AppendSetHeader(call, ioOk) ==
    /\ call \in calls /\ call.op = "append" /\ call.pc = "setHeader"
    /\ IF ioOk
       THEN /\ sheets' = [sheets EXCEPT ![call.tab].header = SHEET_HEADERS]
            /\ calls' = Resume(call, "addRow")
            /\ result' = NoResult
       ELSE /\ sheets' = sheets
            /\ calls' = calls \ {call}
            /\ result' = Returned("append", FALSE, 0)
    /\ UNCHANGED <<coreVars, loaded>>

\* sheet.loadHeaderRow: throws on an empty header row; a header without the
\* Source column sends the call into the migration, with the header it loaded
AppendLoadHeader(call, ioOk) ==
    /\ call \in calls /\ call.op = "append" /\ call.pc = "loadHeader"
    /\ IF ioOk /\ sheets[call.tab].header # <<>>
       THEN /\ calls' = IF IndexOf(sheets[call.tab].header, <<"Source">>) # 0
                         THEN Resume(call, "addRow")
                         ELSE (calls \ {call}) \cup
                                {[call EXCEPT !.pc = "migrateRows",
                                              !.headers = sheets[call.tab].header]}
            /\ result' = NoResult
       ELSE /\ calls' = calls \ {call}
            /\ result' = Returned("append", FALSE, 0)
    /\ UNCHANGED <<coreVars, sheets, loaded>>

\* the migration: sheet.getRows(), and rowData built from the rows as this call's
\* header reads them (r.get(h) || '')
MigrateGetRows(call, ioOk) ==
    /\ call \in calls /\ call.op = "append" /\ call.pc = "migrateRows"
    /\ IF ioOk
       THEN /\ calls' = (calls \ {call}) \cup
                  {[call EXCEPT
                      !.pc = "migrateClear",
                      !.rowData = [r \in 1..Len(sheets[call.tab].rows) |->
                                     [h \in 1..Len(call.headers) |->
                                        Cell(call.headers, sheets[call.tab].rows[r],
                                             call.headers[h])]]]}
            /\ result' = NoResult
       ELSE /\ calls' = calls \ {call}
            /\ result' = Returned("append", FALSE, 0)
    /\ UNCHANGED <<coreVars, sheets, loaded>>

\* sheet.clear()
MigrateClear(call, ioOk) ==
    /\ call \in calls /\ call.op = "append" /\ call.pc = "migrateClear"
    /\ IF ioOk
       THEN /\ sheets' = [sheets EXCEPT ![call.tab] = NoSheet]
            /\ calls' = Resume(call, "migrateHeader")
            /\ result' = NoResult
       ELSE /\ sheets' = sheets
            /\ calls' = calls \ {call}
            /\ result' = Returned("append", FALSE, 0)
    /\ UNCHANGED <<coreVars, loaded>>

\* [oldHeaders[0], 'Source', ...oldHeaders.slice(1)]
WithSource(cells, value) == <<Head(cells), value>> \o Tail(cells)

\* sheet.setHeaderRow(newHeaders); with no row to write back the migration is over
MigrateSetHeader(call, ioOk) ==
    /\ call \in calls /\ call.op = "append" /\ call.pc = "migrateHeader"
    /\ IF ioOk
       THEN /\ sheets' = [sheets EXCEPT ![call.tab].header =
                             WithSource(call.headers, <<"Source">>)]
            /\ calls' = Resume(call, IF call.rowData = <<>> THEN "addRow" ELSE "migrateAdd")
            /\ result' = NoResult
       ELSE /\ sheets' = sheets
            /\ calls' = calls \ {call}
            /\ result' = Returned("append", FALSE, 0)
    /\ UNCHANGED <<coreVars, loaded>>

\* one turn of the loop: sheet.addRow([data[0], 'discord', ...data.slice(1)])
MigrateAddRow(call, ioOk) ==
    /\ call \in calls /\ call.op = "append" /\ call.pc = "migrateAdd"
    /\ IF ioOk
       THEN /\ sheets' = [sheets EXCEPT ![call.tab].rows =
                             Append(@, WithSource(Head(call.rowData), <<"discord">>))]
            /\ calls' = (calls \ {call}) \cup
                  {[call EXCEPT !.rowData = Tail(@),
                                !.pc = IF Tail(call.rowData) = <<>>
                                       THEN "addRow" ELSE "migrateAdd"]}
            /\ result' = NoResult
       ELSE /\ sheets' = sheets
            /\ calls' = calls \ {call}
            /\ result' = Returned("append", FALSE, 0)
    /\ UNCHANGED <<coreVars, loaded>>

\* sheet.addRow(row), then return true
AppendAddRow(call, ioOk) ==
    /\ call \in calls /\ call.op = "append" /\ call.pc = "addRow"
    /\ sheets' = IF ioOk
                  THEN [sheets EXCEPT ![call.tab].rows =
                          Append(@, AppendedRow(call.sub, call.source))]
                  ELSE sheets
    /\ calls' = calls \ {call}
    /\ result' = Returned("append", ioOk, 0)
    /\ UNCHANGED <<coreVars, loaded>>

\* =========================================================================
\* sheets.ts : updateSubmissionVotes
\* =========================================================================
\* the call, up to its first await: getMissionById, the status check, getSpreadsheet
updateSubmissionVotes(missionId, submissionId, pairs) ==
    LET i == getMissionByIdIdx(missions', missionId)
    IN  IF i = 0 \/ missions'[i].status # "active"
        THEN /\ calls' = calls
             /\ result' = Returned("update", FALSE, 0)
        ELSE /\ calls' = calls \cup {[op |-> "update", pc |-> "load",
                                        tab |-> Tab(missions'[i].threadId),
                                        sub |-> submissionId, source |-> "",
                                        pairs |-> pairs, position |-> 0, row |-> <<>>,
                               headers |-> <<>>, rowData |-> <<>>]}
             /\ result' = NoResult

\* getSpreadsheet resolves or throws; the tab must exist
UpdateLoad(call, ioOk) ==
    /\ call \in calls /\ call.op = "update" /\ call.pc = "load"
    /\ ioOk => isSheetsConfigured
    /\ IF ioOk /\ call.tab \in DOMAIN sheets
       THEN /\ calls' = Resume(call, "getRows")
            /\ result' = NoResult
       ELSE /\ calls' = calls \ {call}
            /\ result' = Returned("update", FALSE, 0)
    /\ UNCHANGED <<coreVars, sheets, loaded>>

\* sheet.getRows resolves (it throws on an empty header row); the row is looked
\* up and its three cells are set
UpdateGetRows(call, ioOk) ==
    /\ call \in calls /\ call.op = "update" /\ call.pc = "getRows"
    /\ LET sheet == sheets[call.tab]
           position == FindRow(sheet, call.sub)
       IN  IF ioOk /\ sheet.header # <<>> /\ position # 0
           THEN /\ calls' = (calls \ {call}) \cup
                      {[call EXCEPT !.pc = "save", !.position = position,
                                    !.row = UpdatedRow(sheet.header, sheet.rows[position],
                                                       call.pairs)]}
                /\ result' = NoResult
           ELSE /\ calls' = calls \ {call}
                /\ result' = Returned("update", FALSE, 0)
    /\ UNCHANGED <<coreVars, sheets, loaded>>

\* row.save(), then return true
UpdateSave(call, ioOk) ==
    /\ call \in calls /\ call.op = "update" /\ call.pc = "save"
    /\ sheets' = IF ioOk
                  THEN [sheets EXCEPT ![call.tab].rows = SaveRowAt(@, call.position, call.row)]
                  ELSE sheets
    /\ calls' = calls \ {call}
    /\ result' = Returned("update", ioOk, 0)
    /\ UNCHANGED <<coreVars, loaded>>

\* =========================================================================
\* the handlers, with their Sync Gateway calls
\* =========================================================================
DiscordMessageSync(t, storeOk) ==
    /\ DiscordMessage(t, storeOk)
    /\ IF storeOk
       THEN appendSubmissionToSheet(missions[getMissionByThreadIdx(missions, t)],
                                    NewSubmissionId(submissions), "discord")
       ELSE calls' = calls /\ result' = NoResult
    /\ UNCHANGED <<sheets, loaded>>

TelegramReplySync(tg) ==
    /\ TelegramReply(tg)
    /\ IF Len(submissions') > Len(submissions)
       THEN appendSubmissionToSheet(missions[getMissionByTelegramMessageIdx(missions, tg)],
                                    NewSubmissionId(submissions), "telegram")
       ELSE calls' = calls /\ result' = NoResult
    /\ UNCHANGED <<sheets, loaded>>

ReactionAddSync(k, u, e) ==
    /\ ReactionAdd(k, u, e)
    /\ IF ~IsBot(u) /\ VOTE_EMOJIS(e) # 0 /\ hasJudgeRole(u)
       THEN updateSubmissionVotes(submissions'[k].missionId, submissions'[k].id,
                                  VotePairs(submissions'[k].votes))
       ELSE calls' = calls /\ result' = NoResult
    /\ UNCHANGED <<sheets, loaded>>

ReactionRemoveSync(k, u, e) ==
    /\ ReactionRemove(k, u, e)
    /\ IF ~IsBot(u) /\ VOTE_EMOJIS(e) # 0
       THEN updateSubmissionVotes(submissions'[k].missionId, submissions'[k].id,
                                  VotePairs(submissions'[k].votes))
       ELSE calls' = calls /\ result' = NoResult
    /\ UNCHANGED <<sheets, loaded>>

\* =========================================================================
\* sheets.ts : exportMissionToSheets, with its spreadsheet calls
\* =========================================================================
\* an export that makes sure of the tab before it looks at the submissions
ExportLoadSyncTabFirst(c, ioOk, storeOk) ==
    /\ ExportLoad(c, ioOk, storeOk)
    /\ LET mission == Head(queue[c])
           subs == getSubmissionsByMission(submissions, mission.id)
           tab == Tab(mission.threadId)
       IN  /\ loaded' = IF ioOk /\ subs # <<>>
                         THEN [loaded EXCEPT ![c] =
                                 [stage |-> "header", subs |-> subs, exists |-> TRUE]]
                         ELSE loaded
           /\ result' = IF ~ioOk THEN Returned("export", FALSE, 0)
                         ELSE IF subs = <<>> THEN Returned("export", storeOk, 0)
                         ELSE NoResult
           /\ sheets' = IF ~ioOk THEN sheets
                         ELSE IF tab \in DOMAIN sheets THEN [sheets EXCEPT ![tab] = NoSheet]
                         ELSE sheets @@ (tab :> NoSheet)
    /\ UNCHANGED <<calls>>

\* getSpreadsheet, the snapshot of the submissions, and the return for none
ExportLoadSync(c, ioOk, storeOk) ==
    /\ ExportLoad(c, ioOk, storeOk)
    /\ LET mission == Head(queue[c])
           subs == getSubmissionsByMission(submissions, mission.id)
       IN  /\ loaded' = IF ioOk /\ subs # <<>>
                         THEN [loaded EXCEPT ![c] =
                                 [stage |-> "sheet", subs |-> subs,
                                  exists |-> Tab(mission.threadId) \in DOMAIN sheets]]
                         ELSE loaded
           /\ result' = IF ~ioOk THEN Returned("export", FALSE, 0)
                         ELSE IF subs = <<>> THEN Returned("export", storeOk, 0)
                         ELSE NoResult
    /\ UNCHANGED <<sheets, calls>>

\* an export whose marks run although a spreadsheet call threw
ExportThrowsAfterMarks(c) ==
    /\ ExportWrite(c, TRUE, TRUE, TRUE)
    /\ loaded' = [loaded EXCEPT ![c] = NotLoaded]
    /\ result' = Returned("export", FALSE, 0)

\* the export gives up: its catch returns the failure
ExportThrows(c) ==
    /\ ExportWrite(c, FALSE, FALSE, FALSE)
    /\ loaded' = [loaded EXCEPT ![c] = NotLoaded]
    /\ result' = Returned("export", FALSE, 0)

\* an export that does not clear the tab it finds
ExportSheetKeepsRows(c, ioOk) ==
    /\ pc[c] = "write" /\ loaded[c].stage = "sheet"
    /\ LET tab == Tab(Head(queue[c]).threadId)
       IN  IF ioOk /\ (loaded[c].exists \/ tab \notin DOMAIN sheets)
           THEN /\ sheets' = IF loaded[c].exists
                              THEN sheets
                              ELSE sheets @@ (tab :> NoSheet)
                /\ loaded' = [loaded EXCEPT ![c].stage = "header"]
                /\ result' = NoResult
                /\ UNCHANGED coreVars
           ELSE /\ ExportThrows(c)
                /\ sheets' = sheets
    /\ UNCHANGED <<calls>>

\* doc.addSheet for a tab doc did not list, sheet.clear() for one it listed
ExportSheet(c, ioOk) ==
    /\ pc[c] = "write" /\ loaded[c].stage = "sheet"
    /\ LET tab == Tab(Head(queue[c]).threadId)
       IN  IF ioOk /\ (loaded[c].exists \/ tab \notin DOMAIN sheets)
           THEN /\ sheets' = IF loaded[c].exists
                              THEN [sheets EXCEPT ![tab] = NoSheet]
                              ELSE sheets @@ (tab :> NoSheet)
                /\ loaded' = [loaded EXCEPT ![c].stage = "header"]
                /\ result' = NoResult
                /\ UNCHANGED coreVars
           ELSE /\ ExportThrows(c)
                /\ sheets' = sheets
    /\ UNCHANGED <<calls>>

\* sheet.setHeaderRow(headers)
ExportSetHeader(c, ioOk) ==
    /\ pc[c] = "write" /\ loaded[c].stage = "header"
    /\ LET tab == Tab(Head(queue[c]).threadId)
       IN  IF ioOk
           THEN /\ sheets' = [sheets EXCEPT ![tab].header =
                                 ExportHeaders(SortedSeq(JudgeIdsOf(loaded[c].subs)))]
                /\ loaded' = [loaded EXCEPT ![c].stage = "rows"]
                /\ result' = NoResult
                /\ UNCHANGED coreVars
           ELSE /\ ExportThrows(c)
                /\ sheets' = sheets
    /\ UNCHANGED <<calls>>

\* an export that marks and saves the submissions it read before its writes
ExportWriteSyncStale(c, ioOk, missionOk, subsOk) ==
    /\ loaded[c].stage = "rows"
    /\ pc[c] = "write"
    /\ LET mission == Head(queue[c])
           tab == Tab(mission.threadId)
           rows == ExportRows(loaded[c].subs)
       IN  /\ missions' = IF ioOk /\ missionOk
                          THEN markMissionExported(missions, mission.id, now)
                          ELSE missions
           /\ submissions' = IF ioOk /\ missionOk /\ subsOk
                             THEN markSubmissionsExported(loaded[c].subs, mission.id)
                             ELSE submissions
           /\ sheets' = IF ioOk
                         THEN [sheets EXCEPT ![tab].rows = @ \o rows]
                         ELSE sheets
           /\ result' = IF ioOk /\ missionOk /\ subsOk
                         THEN Returned("export", TRUE, Len(rows))
                         ELSE Returned("export", FALSE, 0)
    /\ Advance(c)
    /\ loaded' = [loaded EXCEPT ![c] = NotLoaded]
    /\ UNCHANGED <<now, sheetsConfigured, judgeRoles, threadOpen, fetching, timerVars, ghostVars, calls>>

\* sheet.addRows(rows), then the two marks and the result
ExportWriteSync(c, ioOk, missionOk, subsOk) ==
    /\ loaded[c].stage = "rows"
    /\ ExportWrite(c, ioOk, missionOk, subsOk)
    /\ LET tab == Tab(Head(queue[c]).threadId)
           rows == ExportRows(loaded[c].subs)
       IN  /\ sheets' = IF ioOk
                         THEN [sheets EXCEPT ![tab].rows = @ \o rows]
                         ELSE sheets
           /\ result' = IF ioOk /\ missionOk /\ subsOk
                         THEN Returned("export", TRUE, Len(rows))
                         ELSE Returned("export", FALSE, 0)
    /\ loaded' = [loaded EXCEPT ![c] = NotLoaded]
    /\ UNCHANGED <<calls>>

\* =========================================================================
\* the system
\* =========================================================================
MissionIds == {missions[i].id : i \in 1..Len(missions)} \cup UnknownIds

\* the handlers and store calls that do not belong to the sweeper, with at most
\* cap submissions sent and users 0..voters reacting
Traffic(cap, voters) ==
    \/ \E t \in Threads, storeOk \in BOOLEAN :
          Pending < cap /\ DiscordMessage(t, storeOk) /\ UNCHANGED extVars
    \/ \E t \in Threads : Pending < cap /\ DiscordMessageFetch(t) /\ UNCHANGED extVars
    \/ \E t \in Threads, d \in RegisterDeadlines, storeOk \in BOOLEAN :
          DiscordMessageRegister(t, d, storeOk) /\ UNCHANGED extVars
    \/ \E t \in Threads, announced \in BOOLEAN :
          CreateMissionThread(t, announced) /\ UNCHANGED extVars
    \/ \E tg \in Threads : Pending < cap /\ TelegramReply(tg) /\ UNCHANGED extVars
    \/ \E k \in 1..cap, u \in 0..voters, e \in EmojiChoices :
          ReactionAdd(k, u, e) /\ UNCHANGED extVars
    \/ \E k \in 1..cap, u \in 0..voters, e \in EmojiChoices :
          ReactionRemove(k, u, e) /\ UNCHANGED extVars
    \/ \E id \in MissionIds, d \in ParsedDeadlines : UpdateDeadline(id, d) /\ UNCHANGED extVars

Sweeper ==
    \/ StartDeadlineChecker /\ UNCHANGED extVars
    \/ TimerTick /\ UNCHANGED extVars
    \/ TriggerCheck /\ UNCHANGED extVars
    \/ StopDeadlineChecker /\ UNCHANGED extVars
    \/ \E c \in Cycles, ok \in BOOLEAN, locked \in BOOLEAN, storeOk \in BOOLEAN :
          CloseThreadDone(c, ok, locked, storeOk) /\ UNCHANGED extVars
    \/ \E c \in Cycles, ioOk \in BOOLEAN, storeOk \in BOOLEAN :
          ExportLoad(c, ioOk, storeOk) /\ UNCHANGED extVars
    \/ \E c \in Cycles, ioOk \in BOOLEAN, missionOk \in BOOLEAN, subsOk \in BOOLEAN :
          ExportWrite(c, ioOk, missionOk, subsOk) /\ UNCHANGED extVars

\* the whole bot
Next == (Tick /\ UNCHANGED extVars) \/ Traffic(MaxSubs, MaxVoters) \/ Sweeper

Spec == Init /\ [][Next]_vars

\* the store under the handlers alone (the sweeper not started), with more submissions
NextLedger == (Tick /\ UNCHANGED extVars) \/ Traffic(MaxLedgerSubs, MaxVoters)

SpecLedger == Init /\ [][NextLedger]_vars

\* the store under the handlers alone, with every judge voting
NextVotes == (Tick /\ UNCHANGED extVars) \/ Traffic(MaxSubs, MaxJudges)

SpecVotes == Init /\ [][NextVotes]_vars

\* the sweeper started more than once, over one mission thread
NextTimers ==
    \/ Tick /\ UNCHANGED extVars
    \/ \E announced \in BOOLEAN : CreateMissionThread(1, announced) /\ UNCHANGED extVars
    \/ \E storeOk \in BOOLEAN :
          Pending < MaxSubs /\ DiscordMessage(1, storeOk) /\ UNCHANGED extVars
    \/ \E id \in MissionIds, d \in ParsedDeadlines : UpdateDeadline(id, d) /\ UNCHANGED extVars
    \/ StartDeadlineCheckerWith(MaxStarts) /\ UNCHANGED extVars
    \/ TimerTick /\ UNCHANGED extVars
    \/ TriggerCheck /\ UNCHANGED extVars
    \/ StopDeadlineChecker /\ UNCHANGED extVars
    \/ \E c \in Cycles, ok \in BOOLEAN, locked \in BOOLEAN, storeOk \in BOOLEAN :
          CloseThreadDone(c, ok, locked, storeOk) /\ UNCHANGED extVars
    \/ \E c \in Cycles, ioOk \in BOOLEAN, storeOk \in BOOLEAN :
          ExportLoad(c, ioOk, storeOk) /\ UNCHANGED extVars
    \/ \E c \in Cycles, ioOk \in BOOLEAN, missionOk \in BOOLEAN, subsOk \in BOOLEAN :
          ExportWrite(c, ioOk, missionOk, subsOk) /\ UNCHANGED extVars

SpecTimers == Init /\ [][NextTimers]_vars

SweepIdle == \A c \in Cycles : pc[c] = "idle"

\* updateMissionDeadline called at any moment with any stored or unknown id and
\* an earlier or a later deadline, over every thread's mission, with one sweep
\* at a time
NextDeadlines ==
    \/ Tick /\ UNCHANGED extVars
    \/ \E t \in Threads, announced \in BOOLEAN :
          CreateMissionThread(t, announced) /\ UNCHANGED extVars
    \/ \E t \in Threads, storeOk \in BOOLEAN :
          Pending < MaxSubs /\ DiscordMessage(t, storeOk) /\ UNCHANGED extVars
    \/ \E id \in MissionIds, d \in RegisterDeadlines : UpdateDeadline(id, d) /\ UNCHANGED extVars
    \/ SweepIdle /\ TriggerCheck /\ UNCHANGED extVars
    \/ \E c \in Cycles, ok \in BOOLEAN, locked \in BOOLEAN, storeOk \in BOOLEAN :
          CloseThreadDone(c, ok, locked, storeOk) /\ UNCHANGED extVars
    \/ \E c \in Cycles, ioOk \in BOOLEAN, storeOk \in BOOLEAN :
          ExportLoad(c, ioOk, storeOk) /\ UNCHANGED extVars
    \/ \E c \in Cycles, ioOk \in BOOLEAN, missionOk \in BOOLEAN, subsOk \in BOOLEAN :
          ExportWrite(c, ioOk, missionOk, subsOk) /\ UNCHANGED extVars

SpecDeadlines == Init /\ [][NextDeadlines]_vars

\* the ids of the messages a platform may deliver to the handler of thread t: a
\* message it has just issued an id for, or one it delivered before and delivers
\* again (the gateway session resumed, or the process restarted before the
\* update was confirmed; the store is on disk and outlives both)
DeliveredIds(source, t) ==
    {NewMessageId(submissions)}
      \cup {submissions[k].messageId : k \in {n \in 1..Len(submissions) :
                submissions[n].source = source /\ submissions[n].threadId = t}}

\* intake from both platforms with at-least-once delivery, and the reactions
NextDelivery ==
    \/ \E t \in Threads, announced \in BOOLEAN :
          CreateMissionThread(t, announced) /\ UNCHANGED extVars
    \/ \E t \in Threads, storeOk \in BOOLEAN : \E id \in DeliveredIds("discord", t) :
          Pending < MaxLedgerSubs /\ DiscordMessageWith(t, id, storeOk) /\ UNCHANGED extVars
    \/ \E tg \in Threads : \E id \in DeliveredIds("telegram", tg) :
          Pending < MaxLedgerSubs /\ TelegramReplyWith(tg, id) /\ UNCHANGED extVars
    \/ \E k \in 1..MaxLedgerSubs, u \in 0..MaxVoters, e \in EmojiChoices :
          ReactionAdd(k, u, e) /\ UNCHANGED extVars
    \/ \E k \in 1..MaxLedgerSubs, u \in 0..MaxVoters, e \in EmojiChoices :
          ReactionRemove(k, u, e) /\ UNCHANGED extVars

SpecDelivery == Init /\ [][NextDelivery]_vars

\* the threads of the spreadsheet-level specifications
SyncThreads == 1..MaxSyncMissions

\* the process starts with the spreadsheet configured, the clock at MaxTime
InitSync ==
    /\ now = MaxTime
    /\ sheetsConfigured = TRUE
    /\ judgeRoles = Judges
    /\ missions = <<>>
    /\ submissions = <<>>
    /\ threadOpen = [t \in Threads |-> TRUE]
    /\ pc = [c \in Cycles |-> "idle"]
    /\ queue = [c \in Cycles |-> <<>>]
    /\ threadClosed = [c \in Cycles |-> FALSE]
    /\ fetching = [t \in Threads |-> 0]
    /\ liveTimers = 0
    /\ checkInterval = FALSE
    /\ skipped = {}
    /\ reRegistered = FALSE
    /\ sheets = <<>>
    /\ calls = {}
    /\ loaded = [c \in Cycles |-> NotLoaded]
    /\ result = NoResult
    /\ log = <<>>

\* a step of the store alone returns nothing from the gateway
StoreOnly == result' = NoResult /\ UNCHANGED <<sheets, calls, loaded, log>>

SyncTraffic(maxSubs, maxCalls, outcomes) ==
    \/ \E t \in SyncThreads, announced \in BOOLEAN :
          CreateMissionThread(t, announced) /\ StoreOnly
    \/ \E id \in MissionIds, d \in ParsedDeadlines : UpdateDeadline(id, d) /\ StoreOnly
    \/ \E t \in SyncThreads, storeOk \in BOOLEAN :
          /\ Pending < maxSubs
          /\ Cardinality(calls) < maxCalls
          /\ DiscordMessageSync(t, storeOk)
          /\ UNCHANGED log
    \/ \E tg \in SyncThreads :
          /\ Pending < maxSubs
          /\ Cardinality(calls) < maxCalls
          /\ TelegramReplySync(tg)
          /\ UNCHANGED log
    \/ \E k \in 1..maxSubs, u \in 0..MaxVoters, e \in EmojiChoices :
          Cardinality(calls) < maxCalls /\ ReactionAddSync(k, u, e) /\ UNCHANGED log
    \/ \E k \in 1..maxSubs, u \in 0..MaxVoters, e \in EmojiChoices :
          Cardinality(calls) < maxCalls /\ ReactionRemoveSync(k, u, e) /\ UNCHANGED log
    \/ \E call \in calls, ioOk \in outcomes : AppendLoad(call, ioOk) /\ UNCHANGED log
    \/ \E call \in calls, ioOk \in outcomes : AppendAddSheet(call, ioOk) /\ UNCHANGED log
    \/ \E call \in calls, ioOk \in outcomes : AppendSetHeader(call, ioOk) /\ UNCHANGED log
    \/ \E call \in calls, ioOk \in outcomes : AppendLoadHeader(call, ioOk) /\ UNCHANGED log
    \/ \E call \in calls, ioOk \in outcomes : AppendAddRow(call, ioOk) /\ UNCHANGED log
    \/ \E call \in calls, ioOk \in outcomes : UpdateLoad(call, ioOk) /\ UNCHANGED log
    \/ \E call \in calls, ioOk \in outcomes : UpdateGetRows(call, ioOk) /\ UNCHANGED log
    \/ \E call \in calls, ioOk \in outcomes : UpdateSave(call, ioOk) /\ UNCHANGED log

SyncSweep ==
    \/ SweepIdle /\ TriggerCheck /\ StoreOnly
    \/ \E c \in Cycles, ok \in BOOLEAN, locked \in BOOLEAN, storeOk \in BOOLEAN :
          CloseThreadDone(c, ok, locked, storeOk) /\ StoreOnly
    \/ \E c \in Cycles, ioOk \in BOOLEAN, storeOk \in BOOLEAN :
          ExportLoadSync(c, ioOk, storeOk) /\ UNCHANGED log
    \/ \E c \in Cycles, ioOk \in BOOLEAN : ExportSheet(c, ioOk) /\ UNCHANGED log
    \/ \E c \in Cycles, ioOk \in BOOLEAN : ExportSetHeader(c, ioOk) /\ UNCHANGED log
    \/ \E c \in Cycles, ioOk \in BOOLEAN, missionOk \in BOOLEAN, subsOk \in BOOLEAN :
          ExportWriteSync(c, ioOk, missionOk, subsOk) /\ UNCHANGED log

\* the handlers and their gateway calls, MaxCalls of them suspended at a time,
\* with a spreadsheet service that answers every request
NextSync == SyncTraffic(MaxSyncSubs, MaxCalls, {TRUE})

SpecSync == InitSync /\ [][NextSync]_vars

\* one submission with any vote list of up to MaxAvgJudges judges, its row in the
\* tab, the vote update of the last reaction suspended, the deadline passed
VoteLists ==
    UNION {{v \in [1..n -> [judgeId : 1..MaxAvgJudges, score : 1..MaxScore, timestamp : {0}]] :
              \A i, j \in 1..n : i # j => v[i].judgeId # v[j].judgeId} : n \in 0..MaxAvgJudges}

InitAverage ==
    /\ now = MaxTime
    /\ sheetsConfigured = TRUE
    /\ judgeRoles = Judges
    /\ missions = <<NewMission(1, 0, 0)>>
    /\ \E v \in VoteLists :
          /\ submissions = [createSubmission(<<>>, NewMessageId(<<>>), 1, 0, "discord")
                               EXCEPT ![1].votes = v]
          /\ calls = {[op |-> "update", pc |-> "load", tab |-> Tab(1), sub |-> 1,
                       source |-> "", pairs |-> VotePairs(v), position |-> 0, row |-> <<>>,
                               headers |-> <<>>, rowData |-> <<>>]}
    /\ threadOpen = [t \in Threads |-> TRUE]
    /\ pc = [c \in Cycles |-> "idle"]
    /\ queue = [c \in Cycles |-> <<>>]
    /\ threadClosed = [c \in Cycles |-> FALSE]
    /\ fetching = [t \in Threads |-> 0]
    /\ liveTimers = 0
    /\ checkInterval = FALSE
    /\ skipped = {}
    /\ reRegistered = FALSE
    /\ sheets = (Tab(1) :> [header |-> SHEET_HEADERS, rows |-> <<AppendedRow(1, "discord")>>])
    /\ loaded = [c \in Cycles |-> NotLoaded]
    /\ result = NoResult
    /\ log = <<>>

NextAverage ==
    \/ \E call \in calls, ioOk \in BOOLEAN : UpdateLoad(call, ioOk) /\ UNCHANGED log
    \/ \E call \in calls, ioOk \in BOOLEAN : UpdateGetRows(call, ioOk) /\ UNCHANGED log
    \/ \E call \in calls, ioOk \in BOOLEAN : UpdateSave(call, ioOk) /\ UNCHANGED log
    \/ SyncSweep

SpecAverage == InitAverage /\ [][NextAverage]_vars

\* exports run one after another over a store that no handler changes: one
\* mission past its deadline, up to MaxSyncSubs submissions with their votes, and
\* the tab either absent or as the appends left it; log keeps what every
\* completed write left in the tab and returned
RerunVoteLists ==
    UNION {{v \in [1..n -> [judgeId : Judges, score : EmojiChoices \ {0}, timestamp : {0}]] :
              \A i, j \in 1..n : i # j => v[i].judgeId # v[j].judgeId} : n \in 0..MaxJudges}

RECURSIVE StoredWith(_)
StoredWith(voteLists) ==
    IF voteLists = <<>> THEN <<>>
    ELSE LET subs == StoredWith(SubSeq(voteLists, 1, Len(voteLists) - 1))
         IN  [createSubmission(subs, NewMessageId(subs), 1, 0, "discord")
                EXCEPT ![Len(voteLists)].votes = voteLists[Len(voteLists)]]

InitRerun ==
    /\ now = MaxTime
    /\ sheetsConfigured = TRUE
    /\ judgeRoles = Judges
    /\ missions = <<NewMission(1, 0, 0)>>
    /\ \E n \in 1..MaxSyncSubs : \E voteLists \in [1..n -> RerunVoteLists] :
          /\ submissions = StoredWith(voteLists)
          /\ sheets \in {<<>>,
                          (Tab(1) :> [header |-> SHEET_HEADERS,
                                      rows |-> [k \in 1..n |-> AppendedRow(k, "discord")]])}
    /\ threadOpen = [t \in Threads |-> TRUE]
    /\ pc = [c \in Cycles |-> "idle"]
    /\ queue = [c \in Cycles |-> <<>>]
    /\ threadClosed = [c \in Cycles |-> FALSE]
    /\ fetching = [t \in Threads |-> 0]
    /\ liveTimers = 0
    /\ checkInterval = FALSE
    /\ skipped = {}
    /\ reRegistered = FALSE
    /\ calls = {}
    /\ loaded = [c \in Cycles |-> NotLoaded]
    /\ result = NoResult
    /\ log = <<>>

\* no other cycle is inside an export
ExportAlone(c) == \A d \in Cycles \ {c} : pc[d] # "write"

NextRerun ==
    \/ Len(log) < MaxRuns /\ TriggerCheck /\ StoreOnly
    \/ \E c \in Cycles, ok \in BOOLEAN, locked \in BOOLEAN, storeOk \in BOOLEAN :
          CloseThreadDone(c, ok, locked, storeOk) /\ StoreOnly
    \/ \E c \in Cycles, ioOk \in BOOLEAN, storeOk \in BOOLEAN :
          ExportAlone(c) /\ ExportLoadSync(c, ioOk, storeOk) /\ UNCHANGED log
    \/ \E c \in Cycles, ioOk \in BOOLEAN : ExportSheet(c, ioOk) /\ UNCHANGED log
    \/ \E c \in Cycles, ioOk \in BOOLEAN : ExportSetHeader(c, ioOk) /\ UNCHANGED log
    \/ \E c \in Cycles, ioOk \in BOOLEAN, missionOk \in BOOLEAN, subsOk \in BOOLEAN :
          /\ ExportWriteSync(c, ioOk, missionOk, subsOk)
          /\ log' = IF ioOk
                     THEN Append(log, [mission |-> Head(queue[c]).id,
                                       sheet |-> sheets'[Tab(Head(queue[c]).threadId)],
                                       result |-> result',
                                       status |-> missions'[getMissionByIdIdx(missions',
                                                      Head(queue[c]).id)].status])
                     ELSE log

SpecRerun == InitRerun /\ [][NextRerun]_vars

\* the export over votes of judges whose ids are of different lengths and, two
\* of them, end in the same six digits: one mission past its deadline, up to
\* MaxSyncSubs submissions, each with up to MaxJudges votes
JudgeIdChoices == {3, 1000001, 2000001}

ColumnVoteLists ==
    UNION {{v \in [1..n -> [judgeId : JudgeIdChoices, score : EmojiChoices \ {0},
                            timestamp : {0}]] :
              \A i, j \in 1..n : i # j => v[i].judgeId # v[j].judgeId} : n \in 0..MaxJudges}

InitColumns ==
    /\ now = MaxTime
    /\ sheetsConfigured = TRUE
    /\ judgeRoles = Judges
    /\ missions = <<NewMission(1, 0, 0)>>
    /\ \E n \in 1..MaxSyncSubs : \E voteLists \in [1..n -> ColumnVoteLists] :
          submissions = StoredWith(voteLists)
    /\ sheets = <<>>
    /\ threadOpen = [t \in Threads |-> TRUE]
    /\ pc = [c \in Cycles |-> "idle"]
    /\ queue = [c \in Cycles |-> <<>>]
    /\ threadClosed = [c \in Cycles |-> FALSE]
    /\ fetching = [t \in Threads |-> 0]
    /\ liveTimers = 0
    /\ checkInterval = FALSE
    /\ skipped = {}
    /\ reRegistered = FALSE
    /\ calls = {}
    /\ loaded = [c \in Cycles |-> NotLoaded]
    /\ result = NoResult
    /\ log = <<>>

\* one sweep; log keeps what its completed write left in the tab and returned
NextColumns ==
    \/ SweepIdle /\ log = <<>> /\ TriggerCheck /\ StoreOnly
    \/ \E c \in Cycles, ok \in BOOLEAN, locked \in BOOLEAN, storeOk \in BOOLEAN :
          CloseThreadDone(c, ok, locked, storeOk) /\ StoreOnly
    \/ \E c \in Cycles, ioOk \in BOOLEAN, storeOk \in BOOLEAN :
          ExportLoadSync(c, ioOk, storeOk) /\ UNCHANGED log
    \/ \E c \in Cycles, ioOk \in BOOLEAN : ExportSheet(c, ioOk) /\ UNCHANGED log
    \/ \E c \in Cycles, ioOk \in BOOLEAN : ExportSetHeader(c, ioOk) /\ UNCHANGED log
    \/ \E c \in Cycles, ioOk \in BOOLEAN, missionOk \in BOOLEAN, subsOk \in BOOLEAN :
          /\ ExportWriteSync(c, ioOk, missionOk, subsOk)
          /\ log' = IF ioOk
                     THEN Append(log, [mission |-> Head(queue[c]).id,
                                       sheet |-> sheets'[Tab(Head(queue[c]).threadId)],
                                       result |-> result'])
                     ELSE log

SpecColumns == InitColumns /\ [][NextColumns]_vars

\* the store operations of the handlers and of the sweeps, each call entered in
\* log as it is made: one mission past its deadline with one submission, up to
\* MaxOps calls
Entry(op, a, b, c, d) == [op |-> op, a |-> a, b |-> b, c |-> c, d |-> d]

InitialStore ==
    [missions |-> <<NewMission(1, 0, 0)>>, submissions |-> StoredWith(<<<<>>>>)]

InitStore ==
    /\ now = MaxTime
    /\ sheetsConfigured = TRUE
    /\ judgeRoles = Judges
    /\ missions = InitialStore.missions
    /\ submissions = InitialStore.submissions
    /\ threadOpen = [t \in Threads |-> TRUE]
    /\ pc = [c \in Cycles |-> "idle"]
    /\ queue = [c \in Cycles |-> <<>>]
    /\ threadClosed = [c \in Cycles |-> FALSE]
    /\ fetching = [t \in Threads |-> 0]
    /\ liveTimers = 0
    /\ checkInterval = FALSE
    /\ skipped = {}
    /\ reRegistered = FALSE
    /\ sheets = <<>>
    /\ calls = {}
    /\ loaded = [c \in Cycles |-> NotLoaded]
    /\ result = NoResult
    /\ log = <<>>

\* the store functions called in this step, in the order of the calls
Calls(entries) == Len(log) < MaxOps /\ log' = log \o entries

GatewayIdle == result' = NoResult /\ UNCHANGED <<sheets, calls, loaded>>

NextStore ==
    \/ \E storeOk \in BOOLEAN :
          /\ Pending < MaxSyncSubs
          /\ DiscordMessage(1, storeOk)
          /\ Calls(IF storeOk
                   THEN <<Entry("createSubmission", NewMessageId(submissions), 1,
                                missions[getMissionByThreadIdx(missions, 1)].id, 0)>>
                   ELSE <<>>)
          /\ GatewayIdle
    \/ \E k \in 1..MaxSyncSubs, u \in 0..MaxVoters, e \in EmojiChoices :
          /\ ReactionAdd(k, u, e)
          /\ Calls(IF VOTE_EMOJIS(e) # 0 /\ hasJudgeRole(u)
                   THEN <<Entry("recordVote", submissions[k].id, u, VOTE_EMOJIS(e), now)>>
                   ELSE <<>>)
          /\ GatewayIdle
    \/ \E k \in 1..MaxSyncSubs, u \in 0..MaxVoters, e \in EmojiChoices :
          /\ ReactionRemove(k, u, e)
          /\ Calls(IF VOTE_EMOJIS(e) # 0
                   THEN <<Entry("removeVote", submissions[k].id, u, 0, 0)>>
                   ELSE <<>>)
          /\ GatewayIdle
    \/ \E id \in MissionIds, d \in ParsedDeadlines :
          /\ UpdateDeadline(id, d)
          /\ Calls(<<Entry("updateMissionDeadline", id, d, 0, 0)>>)
          /\ GatewayIdle
    \/ SweepIdle /\ TriggerCheck /\ Calls(<<>>) /\ GatewayIdle
    \/ \E c \in Cycles, ok \in BOOLEAN, locked \in BOOLEAN, storeOk \in BOOLEAN :
          /\ CloseThreadDone(c, ok, locked, storeOk)
          /\ Calls(IF ok /\ storeOk
                   THEN <<Entry("markMissionClosed", Head(queue[c]).id, 0, 0, 0)>>
                   ELSE <<>>)
          /\ GatewayIdle
    \/ \E c \in Cycles, ioOk \in BOOLEAN, storeOk \in BOOLEAN :
          /\ ExportLoadSync(c, ioOk, storeOk)
          /\ Calls(IF /\ ioOk /\ storeOk
                      /\ getSubmissionsByMission(submissions, Head(queue[c]).id) = <<>>
                   THEN <<Entry("markMissionExported", Head(queue[c]).id, now, 0, 0)>>
                   ELSE <<>>)
    \/ \E c \in Cycles, ioOk \in BOOLEAN : ExportSheet(c, ioOk) /\ UNCHANGED log
    \/ \E c \in Cycles, ioOk \in BOOLEAN : ExportSetHeader(c, ioOk) /\ UNCHANGED log
    \/ \E c \in Cycles, ioOk \in BOOLEAN, missionOk \in BOOLEAN, subsOk \in BOOLEAN :
          /\ ExportWriteSync(c, ioOk, missionOk, subsOk)
          /\ log' = log
                \o (IF ioOk /\ missionOk
                    THEN <<Entry("markMissionExported", Head(queue[c]).id, now, 0, 0)>>
                    ELSE <<>>)
                \o (IF ioOk /\ missionOk /\ subsOk
                    THEN <<Entry("markSubmissionsExported", Head(queue[c]).id, 0, 0, 0)>>
                    ELSE <<>>)

SpecStore == InitStore /\ [][NextStore]_vars

\* what the users are shown: log keeps, for each submission, the reaction or
\* reply its intake handler sends.  The Discord handler starts the append and
\* reacts with the confirmation emoji (reacted: the reaction went through); the
\* Telegram handler awaits the append and answers according to its result.
Shown(submissionId, reply) == [sub |-> submissionId, reply |-> reply]

\* the Telegram handler resumes when the append it awaits returns
TelegramReplyResumes(call) ==
    log' = IF call.op = "append" /\ call.source = "telegram" /\ result' # NoResult
           THEN Append(log, Shown(call.sub, IF result'.ok THEN "recorded" ELSE "failed"))
           ELSE log

NextReplies ==
    \/ \E t \in SyncThreads, announced \in BOOLEAN :
          CreateMissionThread(t, announced) /\ StoreOnly
    \/ \E t \in SyncThreads, storeOk \in BOOLEAN, reacted \in BOOLEAN :
          /\ Pending < MaxSyncSubs
          /\ Cardinality(calls) < MaxCalls
          /\ DiscordMessageSync(t, storeOk)
          /\ log' = IF storeOk /\ reacted
                     THEN Append(log, Shown(NewSubmissionId(submissions), "confirmed"))
                     ELSE log
    \/ \E tg \in SyncThreads :
          /\ Pending < MaxSyncSubs
          /\ Cardinality(calls) < MaxCalls
          /\ TelegramReplySync(tg)
          /\ UNCHANGED log
    \/ \E k \in 1..MaxSyncSubs, u \in 0..MaxVoters, e \in EmojiChoices :
          Cardinality(calls) < MaxCalls /\ ReactionAddSync(k, u, e) /\ UNCHANGED log
    \/ \E call \in calls, ioOk \in BOOLEAN : AppendLoad(call, ioOk) /\ TelegramReplyResumes(call)
    \/ \E call \in calls, ioOk \in BOOLEAN :
          AppendAddSheet(call, ioOk) /\ TelegramReplyResumes(call)
    \/ \E call \in calls, ioOk \in BOOLEAN :
          AppendSetHeader(call, ioOk) /\ TelegramReplyResumes(call)
    \/ \E call \in calls, ioOk \in BOOLEAN :
          AppendLoadHeader(call, ioOk) /\ TelegramReplyResumes(call)
    \/ \E call \in calls, ioOk \in BOOLEAN :
          AppendAddRow(call, ioOk) /\ TelegramReplyResumes(call)
    \/ \E call \in calls, ioOk \in BOOLEAN : UpdateLoad(call, ioOk) /\ UNCHANGED log
    \/ \E call \in calls, ioOk \in BOOLEAN : UpdateGetRows(call, ioOk) /\ UNCHANGED log
    \/ \E call \in calls, ioOk \in BOOLEAN : UpdateSave(call, ioOk) /\ UNCHANGED log

SpecReplies == InitSync /\ [][NextReplies]_vars

\* two missions registered at different clock readings, the first past its
\* deadline, the second past it or not; messages arrive in both threads and the
\* sweep runs, with a spreadsheet service that answers every append
InitTabs ==
    /\ now = MaxTime
    /\ sheetsConfigured = TRUE
    /\ judgeRoles = Judges
    /\ \E d \in RegisterDeadlines :
          missions = registerMission(registerMission(<<>>, 1, 0, 0), 2, d, 1)
    /\ submissions = <<>>
    /\ threadOpen = [t \in Threads |-> TRUE]
    /\ pc = [c \in Cycles |-> "idle"]
    /\ queue = [c \in Cycles |-> <<>>]
    /\ threadClosed = [c \in Cycles |-> FALSE]
    /\ fetching = [t \in Threads |-> 0]
    /\ liveTimers = 0
    /\ checkInterval = FALSE
    /\ skipped = {}
    /\ reRegistered = FALSE
    /\ sheets = <<>>
    /\ calls = {}
    /\ loaded = [c \in Cycles |-> NotLoaded]
    /\ result = NoResult
    /\ log = <<>>

NextTabs ==
    \/ \E t \in 1..2, storeOk \in BOOLEAN :
          /\ Pending < MaxSyncSubs
          /\ Cardinality(calls) < MaxSweepCalls
          /\ DiscordMessageSync(t, storeOk)
          /\ UNCHANGED log
    \/ \E call \in calls : AppendLoad(call, TRUE) /\ UNCHANGED log
    \/ \E call \in calls : AppendAddSheet(call, TRUE) /\ UNCHANGED log
    \/ \E call \in calls : AppendSetHeader(call, TRUE) /\ UNCHANGED log
    \/ \E call \in calls : AppendLoadHeader(call, TRUE) /\ UNCHANGED log
    \/ \E call \in calls : AppendAddRow(call, TRUE) /\ UNCHANGED log
    \/ SyncSweep

SpecTabs == InitTabs /\ [][NextTabs]_vars

\* reactions of any user with any emoji name on two stored submissions
InitEmoji ==
    /\ now = 0
    /\ sheetsConfigured = TRUE
    /\ judgeRoles = Judges
    /\ missions = <<NewMission(1, DefaultDeadlineTicks, 0)>>
    /\ submissions = StoredWith(<<<<>>, <<>>>>)
    /\ sheets = <<>>
    /\ threadOpen = [t \in Threads |-> TRUE]
    /\ pc = [c \in Cycles |-> "idle"]
    /\ queue = [c \in Cycles |-> <<>>]
    /\ threadClosed = [c \in Cycles |-> FALSE]
    /\ fetching = [t \in Threads |-> 0]
    /\ liveTimers = 0
    /\ checkInterval = FALSE
    /\ skipped = {}
    /\ reRegistered = FALSE
    /\ calls = {}
    /\ loaded = [c \in Cycles |-> NotLoaded]
    /\ result = NoResult
    /\ log = <<>>

NextEmoji ==
    \/ \E k \in 1..Len(submissions), u \in Users, e \in EmojiNames :
          ReactionAdd(k, u, e) /\ UNCHANGED extVars
    \/ \E k \in 1..Len(submissions), u \in Users, e \in EmojiNames :
          ReactionRemove(k, u, e) /\ UNCHANGED extVars

SpecEmoji == InitEmoji /\ [][NextEmoji]_vars

\* reactions of members and bots on one stored submission while judge roles
\* are given and taken away
Members == Users \cup Bots

InitRoles ==
    /\ now = 0
    /\ sheetsConfigured = TRUE
    /\ judgeRoles = Judges
    /\ missions = <<NewMission(1, DefaultDeadlineTicks, 0)>>
    /\ submissions = StoredWith(<<<<>>>>)
    /\ sheets = <<>>
    /\ threadOpen = [t \in Threads |-> TRUE]
    /\ pc = [c \in Cycles |-> "idle"]
    /\ queue = [c \in Cycles |-> <<>>]
    /\ threadClosed = [c \in Cycles |-> FALSE]
    /\ fetching = [t \in Threads |-> 0]
    /\ liveTimers = 0
    /\ checkInterval = FALSE
    /\ skipped = {}
    /\ reRegistered = FALSE
    /\ calls = {}
    /\ loaded = [c \in Cycles |-> NotLoaded]
    /\ result = NoResult
    /\ log = <<>>

NextRoles ==
    \/ \E k \in 1..Len(submissions), u \in Members, e \in EmojiChoices :
          ReactionAdd(k, u, e) /\ UNCHANGED extVars
    \/ \E k \in 1..Len(submissions), u \in Members, e \in EmojiChoices :
          ReactionRemove(k, u, e) /\ UNCHANGED extVars
    \/ \E u \in Members : GrantRole(u) /\ UNCHANGED extVars
    \/ \E u \in Members : RevokeRole(u) /\ UNCHANGED extVars

SpecRoles == InitRoles /\ [][NextRoles]_vars

\* a tab written before the Source column existed: SHEET_HEADERS without it, and
\* the rows of two stored submissions, the first with one vote
WithoutSource(cells) == <<Head(cells)>> \o Tail(Tail(cells))

OldHeaders == WithoutSource(SHEET_HEADERS)

OldVotes == <<<<[judgeId |-> 1, score |-> 4, timestamp |-> 0]>>, <<>>>>

OldRows ==
    [k \in 1..Len(OldVotes) |->
        WithoutSource(UpdatedRow(SHEET_HEADERS, AppendedRow(k, "discord"),
                                 VotePairs(OldVotes[k])))]

InitMigration ==
    /\ now = 0
    /\ sheetsConfigured = TRUE
    /\ judgeRoles = Judges
    /\ missions = <<NewMission(1, DefaultDeadlineTicks, 0)>>
    /\ submissions = StoredWith(OldVotes)
    /\ sheets = (Tab(1) :> [header |-> OldHeaders, rows |-> OldRows])
    /\ threadOpen = [t \in Threads |-> TRUE]
    /\ pc = [c \in Cycles |-> "idle"]
    /\ queue = [c \in Cycles |-> <<>>]
    /\ threadClosed = [c \in Cycles |-> FALSE]
    /\ fetching = [t \in Threads |-> 0]
    /\ liveTimers = 0
    /\ checkInterval = FALSE
    /\ skipped = {}
    /\ reRegistered = FALSE
    /\ calls = {}
    /\ loaded = [c \in Cycles |-> NotLoaded]
    /\ result = NoResult
    /\ log = <<>>

\* messages arrive in the thread of that tab, up to MaxCalls appends suspended
\* at once, with a spreadsheet service that answers every call
NextMigration ==
    \/ \E storeOk \in BOOLEAN :
          /\ Len(submissions) < Len(OldRows) + MaxSyncSubs
          /\ Cardinality(calls) < MaxCalls
          /\ DiscordMessageSync(1, storeOk)
          /\ UNCHANGED log
    \/ \E call \in calls : AppendLoad(call, TRUE) /\ UNCHANGED log
    \/ \E call \in calls : AppendLoadHeader(call, TRUE) /\ UNCHANGED log
    \/ \E call \in calls : MigrateGetRows(call, TRUE) /\ UNCHANGED log
    \/ \E call \in calls : MigrateClear(call, TRUE) /\ UNCHANGED log
    \/ \E call \in calls : MigrateSetHeader(call, TRUE) /\ UNCHANGED log
    \/ \E call \in calls : MigrateAddRow(call, TRUE) /\ UNCHANGED log
    \/ \E call \in calls : AppendAddRow(call, TRUE) /\ UNCHANGED log

SpecMigration == InitMigration /\ [][NextMigration]_vars

\* the same with one sweep at a time, MaxSweepCalls gateway calls suspended at a time
NextSweepSync == SyncTraffic(MaxSubs, MaxSweepCalls, BOOLEAN) \/ SyncSweep

SpecSweepSync == InitSync /\ [][NextSweepSync]_vars

\* one sweep at a time over two missions past their deadline, registered at
\* different clock readings, while messages arrive in their threads
InitCycle ==
    /\ now = MaxTime
    /\ sheetsConfigured = TRUE
    /\ judgeRoles = Judges
    /\ missions = registerMission(registerMission(<<>>, 1, 0, 0), 2, 0, 1)
    /\ submissions = <<>>
    /\ threadOpen = [t \in Threads |-> TRUE]
    /\ pc = [c \in Cycles |-> "idle"]
    /\ queue = [c \in Cycles |-> <<>>]
    /\ threadClosed = [c \in Cycles |-> FALSE]
    /\ fetching = [t \in Threads |-> 0]
    /\ liveTimers = 0
    /\ checkInterval = FALSE
    /\ skipped = {}
    /\ reRegistered = FALSE
    /\ sheets = <<>>
    /\ calls = {}
    /\ loaded = [c \in Cycles |-> NotLoaded]
    /\ result = NoResult
    /\ log = <<>>

NextCycle ==
    \/ \E t \in 1..2, storeOk \in BOOLEAN :
          Pending < MaxSubs /\ DiscordMessage(t, storeOk) /\ UNCHANGED extVars
    \/ SweepIdle /\ TriggerCheck /\ UNCHANGED extVars
    \/ \E c \in Cycles, ok \in BOOLEAN, locked \in BOOLEAN, storeOk \in BOOLEAN :
          CloseThreadDone(c, ok, locked, storeOk) /\ UNCHANGED extVars
    \/ \E c \in Cycles, ioOk \in BOOLEAN, storeOk \in BOOLEAN :
          ExportLoad(c, ioOk, storeOk) /\ UNCHANGED extVars
    \/ \E c \in Cycles, ioOk \in BOOLEAN, missionOk \in BOOLEAN, subsOk \in BOOLEAN :
          ExportWrite(c, ioOk, missionOk, subsOk) /\ UNCHANGED extVars

SpecCycle == InitCycle /\ [][NextCycle]_vars

\* the reactions the judges put on the message of one stored submission and
\* take off again, each event entered in log: a user can add only a reaction
\* that is not on the message and remove only one that is
Present(k, u, e) ==
    \E i \in 1..Len(log) :
        /\ log[i] = Entry("add", k, u, e, 0)
        /\ \A j \in (i + 1)..Len(log) : log[j] # Entry("remove", k, u, e, 0)

InitReactions ==
    /\ now = 0
    /\ sheetsConfigured = TRUE
    /\ judgeRoles = Judges
    /\ missions = <<NewMission(1, DefaultDeadlineTicks, 0)>>
    /\ submissions = StoredWith(<<<<>>>>)
    /\ sheets = <<>>
    /\ threadOpen = [t \in Threads |-> TRUE]
    /\ pc = [c \in Cycles |-> "idle"]
    /\ queue = [c \in Cycles |-> <<>>]
    /\ threadClosed = [c \in Cycles |-> FALSE]
    /\ fetching = [t \in Threads |-> 0]
    /\ liveTimers = 0
    /\ checkInterval = FALSE
    /\ skipped = {}
    /\ reRegistered = FALSE
    /\ calls = {}
    /\ loaded = [c \in Cycles |-> NotLoaded]
    /\ result = NoResult
    /\ log = <<>>

NextReactions ==
    \/ \E k \in 1..Len(submissions), u \in Judges, e \in EmojiChoices :
          /\ Len(log) < MaxOps
          /\ ~Present(k, u, e)
          /\ ReactionAdd(k, u, e)
          /\ log' = Append(log, Entry("add", k, u, e, 0))
          /\ UNCHANGED <<sheets, calls, loaded, result>>
    \/ \E k \in 1..Len(submissions), u \in Judges, e \in EmojiChoices :
          /\ Len(log) < MaxOps
          /\ Present(k, u, e)
          /\ ReactionRemove(k, u, e)
          /\ log' = Append(log, Entry("remove", k, u, e, 0))
          /\ UNCHANGED <<sheets, calls, loaded, result>>

SpecReactions == InitReactions /\ [][NextReactions]_vars

TypeOK ==
    /\ now \in 0..MaxTime
    /\ Len(missions) <= MaxMissions
    /\ Len(submissions) <= MaxLedgerSubs
    /\ liveTimers \in 0..MaxStarts

\* =========================================================================
\* properties
\* =========================================================================
Rank(status) == CASE status = "active" -> 0 [] status = "closed" -> 1 [] status = "exported" -> 2

\* the stored status of thread t's mission ("none" when it has none)
StatusOfThread(ms, t) ==
    IF getMissionByThreadIdx(ms, t) = 0 THEN "none"
    ELSE ms[getMissionByThreadIdx(ms, t)].status

\* the submissions sent to thread t's mission
SubsOfThread(subs, t) ==
    LET P(x) == x.threadId = t IN Filter(subs, P)

\* their ids and vote lists
LedgerOfThread(subs, t) ==
    LET own == SubsOfThread(subs, t)
    IN  [k \in 1..Len(own) |-> <<own[k].id, own[k].votes>>]

PastDeadline(m) == m.deadline < now

InSomeQueue(m) == \E c \in Cycles : Snapshot(m) \in Range(queue[c])

\* C1: a mission's stored status never moves backwards in the order
\* active, closed, exported, whatever sweep cycles and handlers interleave.
C1_StatusMonotonic ==
    [][\A i \in 1..Len(missions) :
          Rank(missions'[i].status) >= Rank(missions[i].status)]_vars

\* C2: a mission that is closed but not exported stays in reach of the sweeper:
\* a cycle in flight still holds it, or the query of the next cycle returns it,
\* so that a failed export is retried.
C2_ClosedMissionIsRetried ==
    \A i \in 1..Len(missions) :
        (isSheetsConfigured /\ missions[i].status = "closed" /\ PastDeadline(missions[i]))
        => \/ InSomeQueue(missions[i])
           \/ Snapshot(missions[i]) \in
                Range(SnapshotAll(getMissionsPastDeadline(missions, now)))

\* C3: every step that stores a new submission stores it for a mission whose
\* status is active.
C3_IntakeOnlyWhileActive ==
    [][Len(submissions') > Len(submissions)
         => StatusOfThread(missions', submissions'[Len(submissions')].threadId) = "active"]_vars

\* C4: once a mission is exported, no step changes its deadline, the set of its
\* submissions or any of their vote lists.
C4_ExportedIsFrozen ==
    [][\A i \in 1..Len(missions) :
          missions[i].status = "exported"
          => /\ missions'[i].deadline = missions[i].deadline
             /\ LedgerOfThread(submissions', missions[i].threadId)
                  = LedgerOfThread(submissions, missions[i].threadId)]_vars

OneMissionPerThread ==
    \A i, k \in 1..Len(missions) :
        missions[i].threadId = missions[k].threadId => i = k

\* C5: there is at most one mission per threadId, and registerMission called for
\* a thread that already has a mission leaves the mission collection unchanged
\* and returns the existing mission (the submission stored next carries its id).
C5_RegisterIdempotent ==
    /\ []OneMissionPerThread
    /\ [][\A t \in Threads, d \in RegisterDeadlines, storeOk \in BOOLEAN :
             (getMissionByThreadIdx(missions, t) # 0 /\ DiscordMessageRegister(t, d, storeOk))
             => /\ missions' = missions
                /\ storeOk => submissions'[Len(submissions')].missionId
                                = missions[getMissionByThreadIdx(missions, t)].id]_vars

\* a second handler registered a thread that the first had registered meanwhile,
\* and both stored their submission
C5_Witness ==
    /\ reRegistered
    /\ \E t \in Threads : Len(SubsOfThread(submissions, t)) = 2
    /\ OneMissionPerThread

VotesOf(votes, j) ==
    LET P(v) == v.judgeId = j IN Filter(votes, P)

OneVotePerJudge ==
    \A k \in 1..Len(submissions), j \in Users :
        Len(VotesOf(submissions[k].votes, j)) <= 1

\* C6: a vote list never holds two votes of one judge, and a judge's vote
\* reaction with score x on submission k leaves exactly one vote of that judge
\* there, with score x, and every other judge's vote and every other
\* submission unchanged.
C6_OneVotePerJudge ==
    /\ []OneVotePerJudge
    /\ [][\A k \in 1..Len(submissions), u \in Judges, e \in EmojiChoices :
             (VOTE_EMOJIS(e) # 0 /\ ReactionAdd(k, u, e))
             => /\ Len(VotesOf(submissions'[k].votes, u)) = 1
                /\ VotesOf(submissions'[k].votes, u)[1].score = VOTE_EMOJIS(e)
                /\ \A j \in Judges \ {u} :
                     VotesOf(submissions'[k].votes, j) = VotesOf(submissions[k].votes, j)
                /\ \A n \in 1..Len(submissions) \ {k} : submissions'[n] = submissions[n]]_vars

\* the first vote of a list is younger than the second: its judge voted again
\* after the other judge had voted, and the vote was overwritten in place
C6_Witness ==
    \E k \in 1..Len(submissions) :
        /\ Len(submissions[k].votes) = 2
        /\ submissions[k].votes[1].timestamp > submissions[k].votes[2].timestamp
        /\ submissions[k].votes[1].judgeId # submissions[k].votes[2].judgeId

\* the export of cycle c's current mission returns success in this step
ExportSucceeds(c) ==
    \/ ExportWrite(c, TRUE, TRUE, TRUE)
    \/ /\ ExportLoad(c, TRUE, TRUE)
       /\ getSubmissionsByMission(submissions, Head(queue[c]).id) = <<>>

\* the export of cycle c's current mission returns failure in this step
ExportFails(c) ==
    \/ \E storeOk \in BOOLEAN : ExportLoad(c, FALSE, storeOk)
    \/ /\ ExportLoad(c, TRUE, FALSE)
       /\ getSubmissionsByMission(submissions, Head(queue[c]).id) = <<>>
    \/ \E missionOk \in BOOLEAN, subsOk \in BOOLEAN : ExportWrite(c, FALSE, missionOk, subsOk)
    \/ \E subsOk \in BOOLEAN : ExportWrite(c, TRUE, FALSE, subsOk)
    \/ ExportWrite(c, TRUE, TRUE, FALSE)

AllExported(subs) == \A k \in 1..Len(subs) : subs[k].exported

NoneExported(subs) == \A k \in 1..Len(subs) : ~subs[k].exported

\* C7: in a cycle's iteration for a mission, a successful closeThread leaves the
\* mission closed, and after it a successful export leaves the mission exported
\* and every submission of the mission flagged exported.
C7_CloseThenExport ==
    [][\A c \in Cycles :
          /\ CloseThreadDone(c, TRUE, TRUE, TRUE)
               => StatusOfThread(missions', Head(queue[c]).threadId) = "closed"
          /\ (pc[c] # "idle" /\ threadClosed[c] /\ ExportSucceeds(c))
               => /\ StatusOfThread(missions', Head(queue[c]).threadId) = "exported"
                  /\ AllExported(SubsOfThread(submissions', Head(queue[c]).threadId))]_vars

\* C8: an export that fails leaves its mission closed, neither active nor
\* exported, and none of its submissions flagged; and closeThread is never
\* called for a mission that is already closed.
C8_FailedExportLeavesClosed ==
    [][\A c \in Cycles :
          /\ (pc[c] # "idle" /\ ExportFails(c))
               => /\ StatusOfThread(missions', Head(queue[c]).threadId) = "closed"
                  /\ NoneExported(SubsOfThread(submissions', Head(queue[c]).threadId))
          /\ (pc'[c] = "close" /\ (pc[c] # "close" \/ queue'[c] # queue[c]))
               => StatusOfThread(missions', Head(queue'[c]).threadId) # "closed"]_vars

\* C9: a sweep cycle ends only when it has gone through its whole list: the
\* mission it was processing when it ended was the last one.
C9_CycleProcessesAll ==
    [][\A c \in Cycles :
          (pc[c] # "idle" /\ pc'[c] = "idle") => Len(queue[c]) = 1]_vars

\* C10: with the spreadsheet unconfigured no sweep cycle is ever in flight, no
\* interval timer is installed, no thread is closed, every mission is active
\* and no submission is flagged exported.
C10_UnconfiguredSweepIsNoOp ==
    ~sheetsConfigured
    => /\ \A c \in Cycles : pc[c] = "idle" /\ queue[c] = <<>>
       /\ liveTimers = 0 /\ ~checkInterval
       /\ \A t \in Threads : threadOpen[t]
       /\ \A i \in 1..Len(missions) :
            missions[i].status = "active" /\ missions[i].exportedAt = NoTime
       /\ NoneExported(submissions)

\* startDeadlineChecker and a sweep have both run unconfigured while a mission
\* with a submission was past its deadline
C10_Witness ==
    /\ ~sheetsConfigured
    /\ skipped = {"start", "sweep"}
    /\ \E i \in 1..Len(missions) :
         /\ PastDeadline(missions[i])
         /\ SubsOfThread(submissions, missions[i].threadId) # <<>>

\* C11: while the checker is stopped (checkInterval is null) no interval timer
\* is alive, so no periodic sweep cycle can start; and stopDeadlineChecker
\* leaves every cycle in flight where it is.
C11_StopCancelsEveryTimer ==
    /\ [](~checkInterval => liveTimers = 0)
    /\ [][StopDeadlineChecker => UNCHANGED sweepVars]_vars

\* the sets getMissionsPastDeadline must and does return
DueMissions == {missions[i] : i \in {k \in 1..Len(missions) :
                    missions[k].status = "active" /\ missions[k].deadline < now}}

MissionOf(sub) == missions[getMissionByThreadIdx(missions, sub.threadId)]

\* a handler has just created a submission and called appendSubmissionToSheet
AppendCalled == Len(submissions') = Len(submissions) + 1

\* C12: an append called for a mission that is not active returns false at once:
\* it leaves no call suspended and no sheet created, migrated or appended to.
C12_NonActiveAppendFails ==
    [][(AppendCalled /\ MissionOf(submissions'[Len(submissions')]).status # "active")
         => /\ result' = Returned("append", FALSE, 0)
            /\ calls' = calls
            /\ sheets' = sheets]_vars

\* a submission was taken for an exported mission, the append returned false and
\* the spreadsheet still has no tab
C12_Witness ==
    /\ result = Returned("append", FALSE, 0)
    /\ calls = {}
    /\ sheets = <<>>
    /\ \E k \in 1..Len(submissions) : MissionOf(submissions[k]).status = "exported"

\* a reaction handler has just called updateSubmissionVotes for submission k
VoteHandled(k) ==
    \E u \in 0..MaxVoters, e \in EmojiChoices :
        \/ ReactionAddSync(k, u, e) /\ VOTE_EMOJIS(e) # 0 /\ hasJudgeRole(u)
        \/ ReactionRemoveSync(k, u, e) /\ VOTE_EMOJIS(e) # 0

ActiveMission(id) ==
    /\ getMissionByIdIdx(missions, id) # 0
    /\ missions[getMissionByIdIdx(missions, id)].status = "active"

UpdateReturned(ok) == result' = Returned("update", ok, 0)

VoteColumns(header) ==
    {IndexOf(header, <<"Vote Count">>), IndexOf(header, <<"Average Score">>),
     IndexOf(header, <<"Votes (JSON)">>)}

\* the step changed nothing in the spreadsheet but the three vote cells of the
\* row of call.sub, which now hold the call's vote list
OnlyVoteCells(call) ==
    /\ call.op = "update"
    /\ DOMAIN sheets' = DOMAIN sheets
    /\ \A t \in DOMAIN sheets : t # call.tab => sheets'[t] = sheets[t]
    /\ LET old == sheets[call.tab]
           new == sheets'[call.tab]
           p == call.position
       IN  /\ new.header = old.header
           /\ Len(new.rows) = Len(old.rows)
           /\ p \in 1..Len(old.rows)
           /\ \A i \in 1..Len(old.rows) : i # p => new.rows[i] = old.rows[i]
           /\ Len(new.rows[p]) = Len(old.rows[p])
           /\ \A j \in 1..Len(old.rows[p]) :
                 j \notin VoteColumns(old.header) => new.rows[p][j] = old.rows[p][j]
           /\ Cell(old.header, old.rows[p], <<"Submission ID">>) = IdCell(call.sub)
           /\ Cell(new.header, new.rows[p], <<"Vote Count">>) = toString(Len(call.pairs))
           /\ Cell(new.header, new.rows[p], <<"Average Score">>) = avgScoreOfVotes(call.pairs)
           /\ Cell(new.header, new.rows[p], <<"Votes (JSON)">>) = VotesJson(call.pairs)

\* C13: updateSubmissionVotes returns false and leaves the spreadsheet as it was
\* when the mission is missing or not active, when the mission has no tab and
\* when no row carries the submission id; when it returns true it has rewritten
\* only the vote count, average and vote list of that submission's row.
C13_UpdateVotesContract ==
    [][/\ \A k \in 1..Len(submissions) :
             (VoteHandled(k) /\ ~ActiveMission(submissions[k].missionId))
               => UpdateReturned(FALSE) /\ calls' = calls /\ sheets' = sheets
       /\ \A call \in calls \ calls' :
             /\ (call.op = "update" /\ call.pc = "load" /\ call.tab \notin DOMAIN sheets)
                  => UpdateReturned(FALSE)
             /\ (call.op = "update" /\ call.pc = "getRows"
                    /\ FindRow(sheets[call.tab], call.sub) = 0)
                  => UpdateReturned(FALSE)
       /\ UpdateReturned(FALSE) => sheets' = sheets
       /\ UpdateReturned(TRUE) => \E call \in calls \ calls' : OnlyVoteCells(call)]_vars

\* the number a text of decimal digits denotes, -1 for any other text
RECURSIVE ParseNat(_)
ParseNat(text) ==
    IF text = <<>> THEN 0 - 1
    ELSE IF DigitValue(text[Len(text)]) < 0 THEN 0 - 1
    ELSE IF Len(text) = 1 THEN DigitValue(text[1])
    ELSE IF ParseNat(SubSeq(text, 1, Len(text) - 1)) < 0 THEN 0 - 1
    ELSE 10 * ParseNat(SubSeq(text, 1, Len(text) - 1)) + DigitValue(text[Len(text)])

\* text is digits, a point and exactly two digits, and no other such number is
\* nearer to sum / count
IsMean2(text, sum, count) ==
    /\ Len(text) >= 4
    /\ text[Len(text) - 2] = "."
    /\ LET units == ParseNat(SubSeq(text, 1, Len(text) - 3))
           cents == ParseNat(SubSeq(text, Len(text) - 1, Len(text)))
           h == 100 * units + cents
           d == 100 * sum - h * count
       IN  /\ units >= 0
           /\ cents >= 0
           /\ 2 * (IF d < 0 THEN 0 - d ELSE d) <= count

\* row p of the sheet shows the count and the mean of the votes
CountAndMean(sheet, p, votes) ==
    /\ p \in 1..Len(sheet.rows)
    /\ ParseNat(Cell(sheet.header, sheet.rows[p], <<"Vote Count">>)) = Len(votes)
    /\ IF Len(votes) = 0
       THEN Cell(sheet.header, sheet.rows[p], <<"Average Score">>) = <<"N/A">>
       ELSE IsMean2(Cell(sheet.header, sheet.rows[p], <<"Average Score">>),
                    SumScores(votes), Len(votes))

\* C14: for votes with scores 1..5, the row updateSubmissionVotes sets and saves
\* (read under the header it loaded) and every row a successful export adds show
\* the number of votes and their mean rounded to two decimals, N/A when there is
\* no vote.
C14_CountAndAverage ==
    [][/\ \A call \in calls' \ calls :
            (call.op = "update" /\ call.pc = "save")
              => CountAndMean([header |-> sheets[call.tab].header, rows |-> <<call.row>>],
                              1, call.pairs)
       /\ \A call \in calls \ calls' :
            (call.op = "update" /\ UpdateReturned(TRUE))
              => sheets'[call.tab].rows[call.position] = call.row
       /\ \A c \in Cycles :
            (result' = Returned("export", TRUE, Len(loaded[c].subs)) /\ loaded[c].stage = "rows")
              => LET sheet == sheets'[Tab(Head(queue[c]).threadId)]
                     n == Len(loaded[c].subs)
                 IN  \A i \in 1..n :
                       CountAndMean(sheet, Len(sheet.rows) - n + i, loaded[c].subs[i].votes)]_vars

\* the update has just saved count 3 and average 4.00 for the votes 5, 3, 4
C14_Witness ==
    /\ result = Returned("update", TRUE, 0)
    /\ Len(submissions) = 1
    /\ [i \in 1..Len(submissions[1].votes) |-> submissions[1].votes[i].score] = <<5, 3, 4>>
    /\ \E t \in DOMAIN sheets :
          /\ Len(sheets[t].rows) = 1
          /\ Cell(sheets[t].header, sheets[t].rows[1], <<"Vote Count">>) = <<"3">>
          /\ Cell(sheets[t].header, sheets[t].rows[1], <<"Average Score">>)
               = <<"4", ".", "0", "0">>

\* the mission of cycle c, as the store holds it after the step
MissionAfter(c) == missions'[getMissionByIdIdx(missions', Head(queue[c]).id)]

\* C15: the export of a mission with no submission touches no sheet and has no
\* spreadsheet write left to do; when its spreadsheet and store calls go through
\* it returns success with rowCount 0 and the mission is exported.
C15_EmptyExport ==
    [][\A c \in Cycles :
         (pc[c] = "load" /\ getSubmissionsByMission(submissions, Head(queue[c]).id) = <<>>)
           => /\ \A ioOk \in BOOLEAN, storeOk \in BOOLEAN :
                    ExportLoadSync(c, ioOk, storeOk)
                      => /\ sheets' = sheets
                         /\ loaded'[c] = NotLoaded
                         /\ pc'[c] # "write"
                         /\ result'.op = "export"
              /\ ExportLoadSync(c, TRUE, TRUE)
                    => /\ result' = Returned("export", TRUE, 0)
                       /\ MissionAfter(c).status = "exported"]_vars

\* a mission with no submission has been exported with rowCount 0 and the
\* spreadsheet has no tab
C15_Witness ==
    /\ result = Returned("export", TRUE, 0)
    /\ submissions = <<>>
    /\ sheets = <<>>
    /\ \E i \in 1..Len(missions) : missions[i].status = "exported"

\* the sheet has one row for each stored submission of the mission and no other
OneRowPerSubmission(sheet, missionId) ==
    LET subs == getSubmissionsByMission(submissions, missionId)
    IN  /\ Len(sheet.rows) = Len(subs)
        /\ \A k \in 1..Len(subs) : FindRow(sheet, subs[k].id) # 0

\* C16: every export whose writes went through leaves in the tab what every
\* earlier such export of the same mission left there, with one row for each
\* submission, whatever the tab held before; exports that return success
\* return the same rowCount, the number of rows, and leave the mission exported.
C16_ExportIdempotent ==
    \A j \in 1..Len(log) :
        /\ OneRowPerSubmission(log[j].sheet, log[j].mission)
        /\ log[j].result.ok
             => log[j].result.rowCount = Len(log[j].sheet.rows) /\ log[j].status = "exported"
        /\ \A i \in 1..(j - 1) :
              log[i].mission = log[j].mission
                => /\ log[j].sheet = log[i].sheet
                   /\ (log[i].result.ok /\ log[j].result.ok)
                        => log[j].result.rowCount = log[i].result.rowCount

\* the export ran again after it had returned success, on two submissions, and
\* returned success again with the tab as the first run left it
C16_Witness ==
    /\ Len(log) = 2
    /\ log[1].result.ok /\ log[2].result.ok
    /\ log[1].result.rowCount = 2
    /\ log[2].sheet = log[1].sheet
    /\ sheets[Tab(1)] = log[2].sheet

\* the row of submission k in its mission's tab shows the votes the store holds
RowInSync(k) ==
    LET tab == Tab(submissions[k].threadId)
        pairs == VotePairs(submissions[k].votes)
    IN  /\ tab \in DOMAIN sheets
        /\ FindRow(sheets[tab], submissions[k].id) # 0
        /\ LET header == sheets[tab].header
               row == sheets[tab].rows[FindRow(sheets[tab], submissions[k].id)]
           IN  /\ Cell(header, row, <<"Vote Count">>) = toString(Len(pairs))
               /\ Cell(header, row, <<"Average Score">>) = avgScoreOfVotes(pairs)
               /\ Cell(header, row, <<"Votes (JSON)">>) = VotesJson(pairs)

\* C17: with the mission active and the spreadsheet answering every request,
\* once no appendSubmissionToSheet or updateSubmissionVotes call is suspended
\* every stored submission has its row, and the row shows the stored votes.
C17_NoLostUpdate ==
    calls = {} => \A k \in 1..Len(submissions) : RowInSync(k)

\* the store function an entry of log names, applied to a store
Apply(store, e) ==
    CASE e.op = "createSubmission" ->
           [store EXCEPT !.submissions =
              createSubmission(@, e.a, e.b, e.c, IF e.d = 0 THEN "discord" ELSE "telegram")]
      [] e.op = "recordVote" ->
           [store EXCEPT !.submissions = recordVote(@, e.a, e.b, e.c, e.d)]
      [] e.op = "removeVote" ->
           [store EXCEPT !.submissions = removeVote(@, e.a, e.b)]
      [] e.op = "updateMissionDeadline" ->
           [store EXCEPT !.missions = updateMissionDeadline(@, e.a, e.b)]
      [] e.op = "markMissionClosed" ->
           [store EXCEPT !.missions = markMissionClosed(@, e.a)]
      [] e.op = "markMissionExported" ->
           [store EXCEPT !.missions = markMissionExported(@, e.a, e.b)]
      [] e.op = "markSubmissionsExported" ->
           [store EXCEPT !.submissions = markSubmissionsExported(@, e.a)]

RECURSIVE Replay(_)
Replay(entries) ==
    IF entries = <<>> THEN InitialStore
    ELSE Apply(Replay(SubSeq(entries, 1, Len(entries) - 1)), entries[Len(entries)])

\* C18: the stored missions and submissions are what the store functions called
\* so far give when applied one after another, in the order of the calls, to
\* the store the process started with: no call works on a stale copy and no
\* mutation is lost.
C18_StoreIsReplayOfCalls ==
    [missions |-> missions, submissions |-> submissions] = Replay(log)

\* a vote was recorded between the export's snapshot and its marks, and both
\* the vote and the exported flags are in the store
C18_Witness ==
    /\ Len(log) >= 3
    /\ \E i \in 1..(Len(log) - 2) :
          /\ log[i].op = "recordVote"
          /\ log[i + 1].op = "markMissionExported"
          /\ log[i + 2].op = "markSubmissionsExported"
    /\ submissions[1].votes # <<>>
    /\ submissions[1].exported

\* a spreadsheet call of a suspended append or vote update throws in this step
SpreadsheetCallFails(call) ==
    \/ AppendLoad(call, FALSE)
    \/ AppendAddSheet(call, FALSE)
    \/ AppendSetHeader(call, FALSE)
    \/ AppendLoadHeader(call, FALSE)
    \/ AppendAddRow(call, FALSE)
    \/ UpdateLoad(call, FALSE)
    \/ UpdateGetRows(call, FALSE)
    \/ UpdateSave(call, FALSE)

\* a spreadsheet call of the export of cycle c throws in this step
ExportCallFails(c) ==
    \/ \E storeOk \in BOOLEAN : ExportLoadSync(c, FALSE, storeOk)
    \/ ExportSheet(c, FALSE)
    \/ ExportSetHeader(c, FALSE)
    \/ \E missionOk \in BOOLEAN, subsOk \in BOOLEAN : ExportWriteSync(c, FALSE, missionOk, subsOk)

\* C19: when a spreadsheet call throws, the gateway operation it belongs to
\* returns its failure result and nothing reaches the caller: the handlers and
\* the store are as they were, the sweep goes on with its next mission, and the
\* failed export has marked neither the mission nor a submission exported.
C19_FailuresAreReturned ==
    [][/\ \A call \in calls :
            SpreadsheetCallFails(call)
              => /\ result' = Returned(call.op, FALSE, 0)
                 /\ calls' = calls \ {call}
                 /\ UNCHANGED coreVars
       /\ \A c \in Cycles :
            ExportCallFails(c)
              => /\ result' = Returned("export", FALSE, 0)
                 /\ missions' = missions
                 /\ submissions' = submissions
                 /\ queue'[c] = Tail(queue[c])
                 /\ pc'[c] \in {"close", "idle"}
                 /\ loaded'[c] = NotLoaded]_vars

\* an export failed after it had cleared the tab: it returned failure, the sweep
\* has ended, and neither the mission nor its submission is exported
C19_Witness ==
    /\ result = Returned("export", FALSE, 0)
    /\ \A c \in Cycles : pc[c] = "idle"
    /\ Len(submissions) = 1 /\ ~submissions[1].exported
    /\ MissionOf(submissions[1]).status # "exported"
    /\ Tab(submissions[1].threadId) \in DOMAIN sheets
    /\ sheets[Tab(submissions[1].threadId)] = NoSheet


\* -------------------------------------------------------------------------
\* the store's contracts and keys
\* -------------------------------------------------------------------------
\* C21: updateMissionDeadline(id, d) returns true exactly when getMissionById
\* finds a mission and that mission is active, and then only that mission's
\* deadline changes, to d; when it returns false (mission closed, exported or
\* unknown) the mission collection is unchanged; no call changes a status.
C21_DeadlineOnlyWhileActive ==
    [][\A id \in MissionIds, d \in RegisterDeadlines :
          UpdateDeadline(id, d)
          => LET i == getMissionByIdIdx(missions, id)
                 returned == updateMissionDeadlineResult(missions, id, d)
             IN  /\ Len(missions') = Len(missions)
                 /\ \A k \in 1..Len(missions) : missions'[k].status = missions[k].status
                 /\ returned <=> (i # 0 /\ missions[i].status = "active")
                 /\ returned => /\ missions'[i].deadline = d
                                /\ \A k \in 1..Len(missions) :
                                      k # i => missions'[k] = missions[k]
                                /\ missions'[i] = [missions[i] EXCEPT !.deadline = d]
                 /\ ~returned => missions' = missions]_vars

\* a mission that createMissionThread registered with the default deadline has
\* the parsed deadline instead, and has since left the active status
C21_Witness ==
    \E i \in 1..Len(missions) :
        /\ missions[i].telegramMessageId # NoTelegram
        /\ missions[i].deadline \in ParsedDeadlines
        /\ missions[i].status # "active"


\* the mission a submission's missionId names, as getMissionById finds it (0: none)
OwningMission(sub) == getMissionByIdIdx(missions, sub.missionId)

ExportedOnlyWithMission ==
    \A k \in 1..Len(submissions) :
        submissions[k].exported
          => /\ OwningMission(submissions[k]) # 0
             /\ missions[OwningMission(submissions[k])].status = "exported"

\* C22: a submission is flagged exported only while its owning mission's status
\* is exported; a new submission is stored with the flag false, and no step
\* takes the flag back.
C22_ExportedFlag ==
    /\ []ExportedOnlyWithMission
    /\ [][/\ Len(submissions') > Len(submissions)
               => ~submissions'[Len(submissions')].exported
          /\ \A k \in 1..Len(submissions) :
               submissions[k].exported => submissions'[k].exported]_vars


\* C23: no two stored submissions carry the same messageId, whatever messages
\* the two platforms deliver and deliver again, so getSubmissionByMessage finds
\* the one submission created for a message.
C23_MessageIdIsKey ==
    \A i, k \in 1..Len(submissions) :
        submissions[i].messageId = submissions[k].messageId => i = k


\* C24: no two missions of the store share an id, so a lookup by id finds the
\* mission the id was handed out for.
C24_MissionIdsUnique ==
    \A i, k \in 1..Len(missions) :
        missions[i].id = missions[k].id
          => i = k /\ getMissionByIdIdx(missions, missions[k].id) = k


\* C25: no intake handler shows a failure for a submission it has stored,
\* whether or not the spreadsheet calls of its append go through.
C25_StoredMeansPositiveReply ==
    \A i \in 1..Len(log) :
        getSubmissionByIdIdx(submissions, log[i].sub) # 0 => log[i].reply # "failed"


\* the thread of the submission a row carries the id of (0: no stored submission)
ThreadOfRow(header, row) ==
    LET P(x) == IdCell(x.id) = Cell(header, row, <<"Submission ID">>)
        k == FindIndex(submissions, P)
    IN  IF k = 0 THEN 0 ELSE submissions[k].threadId

\* the threads whose submissions have a row in the sheet
ThreadsOfSheet(sheet) ==
    {ThreadOfRow(sheet.header, sheet.rows[i]) : i \in 1..Len(sheet.rows)} \ {0}

\* C26: every tab belongs to one mission: no tab holds rows of two missions'
\* submissions, and the tab an export clears and rewrites holds rows of the
\* exported mission only.
C26_OneTabPerMission ==
    /\ [](\A tab \in DOMAIN sheets : Cardinality(ThreadsOfSheet(sheets[tab])) <= 1)
    /\ [][\A c \in Cycles :
            ExportSheet(c, TRUE)
              => \/ Tab(Head(queue[c]).threadId) \notin DOMAIN sheets
                 \/ ThreadsOfSheet(sheets[Tab(Head(queue[c]).threadId)])
                      \subseteq {Head(queue[c]).threadId}]_vars


\* the score judge j gave in the vote list, as a cell; the empty cell for none
ScoreCell(votes, j) ==
    IF VotesOf(votes, j) = <<>> THEN <<>> ELSE toString(VotesOf(votes, j)[1].score)

\* the judge columns of the sheet are those of the judges in order, one each
JudgeColumns(sheet, subs, order) ==
    /\ Len(sheet.header) = 4 + Len(order)
    /\ Len(sheet.rows) = Len(subs)
    /\ \A i \in 1..Len(order) :
          /\ sheet.header[4 + i] = <<"Judge_">> \o Last6(toString(order[i]))
          /\ \A r \in 1..Len(subs) :
                /\ Len(sheet.rows[r]) = 4 + Len(order)
                /\ sheet.rows[r][4 + i] = ScoreCell(subs[r].votes, order[i])

\* C27: the tab an export has written has, after its four fixed columns, one
\* column for each judge with a vote on a submission of the mission and no
\* other, the judges in ascending order of their ids, each column under a
\* header of its own that ends in its judge's id; a row's cell in a judge's
\* column is that judge's score for the row's submission, and empty for none.
C27_JudgeColumns ==
    \A n \in 1..Len(log) :
        LET sheet == log[n].sheet
            subs == getSubmissionsByMission(submissions, log[n].mission)
            ids == JudgeIdsOf(subs)
        IN  /\ \E order \in [1..Cardinality(ids) -> ids] :
                  /\ \A a, b \in 1..Cardinality(ids) :
                        a < b => StringLess(toString(order[a]), toString(order[b]))
                  /\ JudgeColumns(sheet, subs, order)
            /\ \A a, b \in 1..Len(sheet.header) : sheet.header[a] = sheet.header[b] => a = b

\* C28: once no append is in flight, a tab that was found without the Source
\* column has the old header with Source as its second column, and the rows it
\* had before, each once, in their order, every old cell kept and Source "discord"
MigratedRows(sheet) ==
    LET Old(row) == \E k \in 1..Len(OldRows) : Head(row) = Head(OldRows[k])
    IN  SelectSeq(sheet.rows, Old)

C28_MigrationKeepsRows ==
    (calls = {} /\ IndexOf(sheets[Tab(1)].header, <<"Source">>) # 0)
        => /\ sheets[Tab(1)].header = WithSource(OldHeaders, <<"Source">>)
           /\ MigratedRows(sheets[Tab(1)]) =
                 [k \in 1..Len(OldRows) |-> WithSource(OldRows[k], <<"discord">>)]

\* =========================================================================
\* the reaction handlers: what is stored and who may store it
\* =========================================================================
\* C29: every stored vote has a score in 1..5, and a reaction whose emoji is
\* none of the five vote symbols leaves the submissions as they are
ScoresInRange ==
    \A k \in 1..Len(submissions) : \A v \in 1..Len(submissions[k].votes) :
        submissions[k].votes[v].score \in 1..MaxScore

C29_ScoresOneToFive ==
    /\ []ScoresInRange
    /\ [][\A k \in 1..Len(submissions), u \in Users, e \in EmojiNames \ (1..MaxScore) :
            (ReactionAdd(k, u, e) \/ ReactionRemove(k, u, e)) => UNCHANGED submissions]_vars

\* C30: a reaction added or removed by a bot, or by a user who holds no judge
\* role when the event arrives, leaves the missions and the submissions as they are
C30_OnlyJudgesVote ==
    [][\A k \in 1..Len(submissions), u \in Members, e \in EmojiChoices :
          ((IsBot(u) \/ ~hasJudgeRole(u))
             /\ (ReactionAdd(k, u, e) \/ ReactionRemove(k, u, e)))
          => UNCHANGED storeVars]_vars

\* =========================================================================
\* the sweep: order of its steps and the mission's status
\* =========================================================================
\* C31: a cycle begins to close its next mission only in the step in which the
\* export of the mission before it returns, and that export was started only
\* after the close of its mission had resolved
C31_OneMissionAtATime ==
    [][\A c \in Cycles :
          /\ (queue[c] # <<>> /\ queue'[c] = Tail(queue[c]) /\ pc'[c] = "close")
                => pc[c] \in {"load", "write"}
          /\ (pc'[c] \in {"load", "write"} /\ pc[c] # pc'[c])
                => (queue'[c] = queue[c]
                    /\ pc[c] = (IF pc'[c] = "load" THEN "close" ELSE "load"))]_vars

\* the cycle that took both missions is closing the second
C31_Witness ==
    \E c \in Cycles :
        /\ pc[c] = "close" /\ Len(queue[c]) = 1
        /\ Head(queue[c]).threadId = 2
        /\ missions[1].status = "active"

\* C32: a mission's stored status becomes exported only in a step that finds
\* it closed, never in a step that finds it active
C32_ExportedOnlyFromClosed ==
    [][\A i \in 1..Len(missions) :
          (missions'[i].status = "exported" /\ missions[i].status # "exported")
             => missions[i].status = "closed"]_vars

\* C33: a mission carries exportedAt exactly while its status is exported, and
\* exportedAt is written only by the step that makes the status exported
C33_ExportedAtIffExported ==
    /\ [](\A i \in 1..Len(missions) :
            (missions[i].exportedAt # NoTime) <=> (missions[i].status = "exported"))
    /\ [][\A i \in 1..Len(missions) :
            missions'[i].exportedAt # missions[i].exportedAt
               => (missions[i].status # "exported" /\ missions'[i].status = "exported"
                   /\ missions[i].exportedAt = NoTime)]_vars

\* C34: at most one checkDeadlines call is suspended at any time, so that no
\* mission is held by two cycles at once
C34_OneCycleInFlight ==
    \A c, d \in Cycles :
        (c # d /\ pc[c] # "idle") => (pc[d] = "idle" /\ queue[d] = <<>>)

\* =========================================================================
\* the export and the handlers' calls around it
\* =========================================================================
\* C35: once a mission is exported no step changes its tab: the tab stays what
\* the export wrote
C35_NoWriteAfterExport ==
    [][\A i \in 1..Len(missions) :
          (missions[i].status = "exported" /\ Tab(missions[i].threadId) \in DOMAIN sheets)
             => sheets'[Tab(missions[i].threadId)] = sheets[Tab(missions[i].threadId)]]_vars

\* C36: while no MessageCreate handler is suspended, every stored submission of
\* an exported mission is flagged exported
C36_ExportedMissionAllFlagged ==
    (\A t \in Threads : fetching[t] = 0)
       => \A i \in 1..Len(missions) :
             missions[i].status = "exported"
                => AllExported(getSubmissionsByMission(submissions, missions[i].id))

\* C37: the step in which an export writes its rows and returns success flags
\* exactly the submissions whose rows it wrote
C37_FlaggedMeansRowWritten ==
    [][\A c \in Cycles :
          (loaded[c].stage = "rows" /\ loaded'[c] = NotLoaded
              /\ result'.op = "export" /\ result'.ok)
          => /\ \A k \in 1..Len(submissions) :
                   (submissions'[k].exported /\ ~submissions[k].exported)
                      => \E j \in 1..Len(loaded[c].subs) :
                            loaded[c].subs[j].id = submissions[k].id
             /\ \A j \in 1..Len(loaded[c].subs) :
                   submissions'[getSubmissionByIdIdx(submissions', loaded[c].subs[j].id)].exported]_vars

\* =========================================================================
\* the vote ledger and the reactions; the rows of a tab
\* =========================================================================
\* C38: a judge has a stored vote on a submission exactly while at least one of
\* the judge's vote reactions is on the submission's message
C38_VoteIffReaction ==
    \A k \in 1..Len(submissions), u \in Judges :
        (\E v \in 1..Len(submissions[k].votes) : submissions[k].votes[v].judgeId = u)
           <=> (\E e \in EmojiChoices : VOTE_EMOJIS(e) # 0 /\ Present(k, u, e))

\* C39: no tab holds two rows with the same Submission ID
C39_OneRowPerSubmissionId ==
    \A tab \in DOMAIN sheets :
        \A i, j \in 1..Len(sheets[tab].rows) :
            (i # j /\ sheets[tab].rows[i] # <<>> /\ sheets[tab].rows[j] # <<>>)
               => Head(sheets[tab].rows[i]) # Head(sheets[tab].rows[j])

====
